---- MODULE Spec2Model ----
(***************************************************************************)
(* Trade execution state machine of fuse-trading-backend:                  *)
(*   TradesService.buyStock, TradesService.isPriceWithinTolerance,         *)
(*   TradesService.updateTradeStatus, TradesHttpService.buyStock and       *)
(*   PortfolioService.updatePortfolio.                                     *)
(*                                                                         *)
(* Prices are JavaScript Numbers (IEEE-754 binary64).  The tolerance rule  *)
(* multiplies and compares them, so the model carries binary64 values as   *)
(* exact 53-bit significands with correct rounding (round to nearest,      *)
(* ties to even).  Significands are multi-limb naturals because a 53 x 53  *)
(* bit product does not fit a machine integer of the model checker.        *)
(***************************************************************************)
EXTENDS Integers, Sequences, FiniteSets, TLC

(***************************************************************************)
(* Multi-limb naturals: little-endian sequences of limbs in 0..Base-1,     *)
(* without high zero limbs (zero is the empty sequence).                   *)
(***************************************************************************)
LimbBits == 14

Base == 2 ^ LimbBits

RECURSIVE BNorm(_)
BNorm(x) ==
  IF x = << >> THEN << >>
  ELSE IF x[Len(x)] = 0 THEN BNorm(SubSeq(x, 1, Len(x) - 1))
  ELSE x

RECURSIVE BFromInt(_)
BFromInt(n) ==
  IF n = 0 THEN << >> ELSE << n % Base >> \o BFromInt(n \div Base)

RECURSIVE BToInt(_)
BToInt(x) ==
  IF x = << >> THEN 0 ELSE x[1] + Base * BToInt(Tail(x))

RECURSIVE BMulSmallC(_, _, _)
BMulSmallC(x, k, carry) ==
  IF x = << >> THEN BFromInt(carry)
  ELSE LET t == x[1] * k + carry
       IN  << t % Base >> \o BMulSmallC(Tail(x), k, t \div Base)

BMulSmall(x, k) == BNorm(BMulSmallC(x, k, 0))

\* <<quotient, remainder>> of x divided by the small divisor d (1 <= d <= Base)
RECURSIVE BDivSmallR(_, _, _)
BDivSmallR(x, d, i) ==
  IF i > Len(x) THEN << << >>, 0 >>
  ELSE LET hi == BDivSmallR(x, d, i + 1)
           t  == hi[2] * Base + x[i]
       IN  << << t \div d >> \o hi[1], t % d >>

BDivSmall(x, d) ==
  LET r == BDivSmallR(x, d, 1) IN << BNorm(r[1]), r[2] >>

RECURSIVE BAddC(_, _, _)
BAddC(x, y, carry) ==
  IF x = << >> /\ y = << >> THEN BFromInt(carry)
  ELSE LET a == IF x = << >> THEN 0 ELSE x[1]
           b == IF y = << >> THEN 0 ELSE y[1]
           t == a + b + carry
       IN  << t % Base >> \o
           BAddC(IF x = << >> THEN x ELSE Tail(x),
                 IF y = << >> THEN y ELSE Tail(y), t \div Base)

BAdd(x, y) == BNorm(BAddC(x, y, 0))

\* x - y for x >= y
RECURSIVE BSubC(_, _, _)
BSubC(x, y, borrow) ==
  IF x = << >> THEN << >>
  ELSE LET b == IF y = << >> THEN 0 ELSE y[1]
           t == x[1] - b - borrow
       IN  << IF t < 0 THEN t + Base ELSE t >> \o
           BSubC(Tail(x), IF y = << >> THEN y ELSE Tail(y),
                 IF t < 0 THEN 1 ELSE 0)

BSub(x, y) == BNorm(BSubC(x, y, 0))

\* -1, 0, 1 as x <, =, > y (both normalised)
RECURSIVE BCmpAt(_, _, _)
BCmpAt(x, y, i) ==
  IF i = 0 THEN 0
  ELSE IF x[i] < y[i] THEN -1
  ELSE IF x[i] > y[i] THEN 1
  ELSE BCmpAt(x, y, i - 1)

BCmp(x, y) ==
  IF Len(x) < Len(y) THEN -1
  ELSE IF Len(x) > Len(y) THEN 1
  ELSE BCmpAt(x, y, Len(x))

Zeros(n) == [i \in 1..n |-> 0]

RECURSIVE BMulAt(_, _, _)
BMulAt(x, y, i) ==
  IF i > Len(x) THEN << >>
  ELSE BAdd(IF x[i] = 0 THEN << >>
            ELSE Zeros(i - 1) \o BMulSmall(y, x[i]),
            BMulAt(x, y, i + 1))

BMul(x, y) == BMulAt(x, y, 1)

RECURSIVE IntBitLen(_)
IntBitLen(n) == IF n = 0 THEN 0 ELSE 1 + IntBitLen(n \div 2)

BitLen(x) ==
  IF x = << >> THEN 0
  ELSE (Len(x) - 1) * LimbBits + IntBitLen(x[Len(x)])

BShl(x, k) ==
  IF x = << >> THEN << >>
  ELSE Zeros(k \div LimbBits) \o BMulSmall(x, 2 ^ (k % LimbBits))

\* <<floor(x / 2^k), sticky>>: sticky is TRUE iff a nonzero bit was dropped
BShrSticky(x, k) ==
  LET a    == k \div LimbBits
      low  == SubSeq(x, 1, IF a < Len(x) THEN a ELSE Len(x))
      high == IF a < Len(x) THEN SubSeq(x, a + 1, Len(x)) ELSE << >>
      qr   == BDivSmall(high, 2 ^ (k % LimbBits))
  IN  << qr[1], (qr[2] # 0) \/ (\E i \in 1..Len(low) : low[i] # 0) >>

BIsOdd(x) == x # << >> /\ x[1] % 2 = 1

(***************************************************************************)
(* binary64 values > 0: [m, e] stands for m * 2^e with 2^52 <= m < 2^53.   *)
(* Exponent range and subnormals are not modelled: prices are between      *)
(* 0.01 and 1,000,000.                                                     *)
(***************************************************************************)
Precision == 53

\* x * 2^e (plus a nonzero fraction below the last bit of x when sticky),
\* rounded to nearest, ties to even
RoundBig(x, e, sticky) ==
  LET L == BitLen(x)
  IN  IF L <= Precision
      THEN [m |-> BShl(x, Precision - L), e |-> e - (Precision - L)]
      ELSE LET s    == L - Precision
               ys   == BShrSticky(x, s - 1)
               qr   == BDivSmall(ys[1], 2)
               q    == qr[1]
               up   == qr[2] = 1 /\ (ys[2] \/ sticky \/ BIsOdd(q))
               m    == IF up THEN BAdd(q, <<1>>) ELSE q
           IN  IF BitLen(m) > Precision
               THEN [m |-> BDivSmall(m, 2)[1], e |-> e + s + 1]
               ELSE [m |-> m, e |-> e + s]

RatioScale == 5 * LimbBits

\* the binary64 nearest to n / d, for integers 1 <= n < 2^31, 1 <= d <= Base:
\* the value of a JavaScript division n / d and of a decimal literal
FromRatio(n, d) ==
  LET qr == BDivSmall(Zeros(RatioScale \div LimbBits) \o BFromInt(n), d)
  IN  RoundBig(qr[1], 0 - RatioScale, qr[2] # 0)

FromInt(n) == RoundBig(BFromInt(n), 0, FALSE)

FAdd(a, b) ==
  LET emin == IF a.e < b.e THEN a.e ELSE b.e
  IN  RoundBig(BAdd(BShl(a.m, a.e - emin), BShl(b.m, b.e - emin)), emin, FALSE)

\* a - b for a > b
FSub(a, b) ==
  LET emin == IF a.e < b.e THEN a.e ELSE b.e
  IN  RoundBig(BSub(BShl(a.m, a.e - emin), BShl(b.m, b.e - emin)), emin, FALSE)

FMul(a, b) == RoundBig(BMul(a.m, b.m), a.e + b.e, FALSE)

FLe(a, b) == a.e < b.e \/ (a.e = b.e /\ BCmp(a.m, b.m) <= 0)

FGe(a, b) == FLe(b, a)

\* Number.prototype.toFixed(4) as an integer count of 1/10000: the integer n
\* nearest to a * 10^4, the larger one on a tie (a < 2^17)
ToFixed4(a) ==
  LET x  == BMulSmall(a.m, 10000)
      ys == BShrSticky(x, (0 - a.e) - 1)
  IN  BToInt(BDivSmall(BAdd(ys[1], <<1>>), 2)[1])

\* a price given in cents as the Number the service holds
Cents(c) == FromRatio(c, 100)


(***************************************************************************)
(* Bounds of the model                                                     *)
(***************************************************************************)
\* number of buyStock invocations in a run
MaxCalls == 2

\* number of invocations that may be in flight at the same time
MaxActive == 2

\* number of I/O steps (repository calls, the quote lookup) that may raise an
\* unexpected error in a run
MaxFaults == 2

Calls == 1..MaxActive

Users == {"u1"}

Symbols == {"AAPL"}

Quantities == {1, 2}

\* requested prices and quotes, in cents
RequestPrices == {14699, 14700}

QuotePrices == {15000}

\* messages of the errors an I/O step may raise; an Error may have an empty
\* message (new Error(), AggregateError of a refused connection)
ErrMessages == {"", "connection lost"}

(***************************************************************************)
(* Values                                                                  *)
(***************************************************************************)
PENDING == "pending"

SUCCESS == "success"

FAILED == "failed"

\* a nullable string column / optional string parameter
Null == [null |-> TRUE, value |-> ""]

Str(s) == [null |-> FALSE, value |-> s]

\* thrown values
Err(m) == [type |-> "Error", message |-> m]

NonError == [type |-> "NonError", message |-> ""]

NoError == [type |-> "none", message |-> ""]

Throwables == {Err(m) : m \in ErrMessages} \cup {NonError}

StockNotFound(symbol) ==
  [type |-> "NotFoundException",
   message |-> "Stock with symbol " \o symbol \o " not found"]

\* exception.getStatus() of a thrown value that is an HttpException
HttpStatusOf(exception) ==
  CASE exception.type = "BadRequestException" -> 400
    [] exception.type = "NotFoundException" -> 404
    [] exception.type = "HttpException" -> exception.status
    [] OTHER -> 500

\* the errorCode of the error envelope the exception filters answer with:
\* exceptionResponse.errorCode || `SYS_${status}` for an HttpException,
\* SYS_500 for anything else
ErrorCodeOf(exception) ==
  IF exception.type \in {"BadRequestException", "NotFoundException",
                         "HttpException"}
  THEN IF "errorCode" \in DOMAIN exception THEN exception.errorCode
       ELSE "SYS_" \o ToString(HttpStatusOf(exception))
  ELSE "SYS_500"

\* template literal of a Number holding a two-decimal price
FmtNumber(c) ==
  LET whole == ToString(c \div 100)
      frac  == c % 100
  IN  IF frac = 0 THEN whole
      ELSE IF frac % 10 = 0 THEN whole \o "." \o ToString(frac \div 10)
      ELSE IF frac < 10 THEN whole \o ".0" \o ToString(frac)
      ELSE whole \o "." \o ToString(frac)

\* the string toFixed(4) returns, from the count of 1/10000
FmtFixed4(n) ==
  LET frac == n % 10000
      pad  == IF frac < 10 THEN "000" ELSE IF frac < 100 THEN "00"
              ELSE IF frac < 1000 THEN "0" ELSE ""
  IN  ToString(n \div 10000) \o "." \o pad \o ToString(frac)

(***************************************************************************)
(* TradesService                                                           *)
(***************************************************************************)
priceTolerancePercent == 2

ToleranceLower(currentPrice) ==
  FMul(currentPrice,
       FSub(FromInt(1), FromRatio(priceTolerancePercent, 100)))

ToleranceUpper(currentPrice) ==
  FMul(currentPrice,
       FAdd(FromInt(1), FromRatio(priceTolerancePercent, 100)))

isPriceWithinToleranceStrict(providedPrice, currentPrice) ==
  /\ ~ FLe(providedPrice, ToleranceLower(currentPrice))
  /\ ~ FGe(providedPrice, ToleranceUpper(currentPrice))

isPriceWithinTolerance(providedPrice, currentPrice) ==
  /\ FGe(providedPrice, ToleranceLower(currentPrice))
  /\ FLe(providedPrice, ToleranceUpper(currentPrice))

\* the row tradeRepository.update leaves: a property that is undefined is
\* not written, and `reason || undefined` is undefined for a missing or an
\* empty reason
updateTradeStatus(row, status, reason) ==
  [row EXCEPT !.status = status,
              !.reason = IF reason.null \/ reason.value = "" THEN @
                         ELSE reason]

mapToTradeResponseDto(id, row) ==
  [id |-> id, userId |-> row.userId, symbol |-> row.symbol,
   price |-> row.price, quantity |-> row.quantity, status |-> row.status,
   reason |-> row.reason]

RangeReason(currentPrice, lower4, upper4) ==
  "Price out of acceptable range. Current price: $" \o FmtNumber(currentPrice)
  \o ", acceptable range: $" \o FmtFixed4(lower4) \o " - $" \o FmtFixed4(upper4)

PriceOutOfRangeLowerTwice(providedPrice, currentPrice, lower4, upper4) ==
  [type |-> "BadRequestException", errorCode |-> "VAL_002",
   message |-> "Price out of acceptable range",
   details |-> [providedPrice |-> providedPrice,
                currentPrice |-> currentPrice,
                allowedRange |-> << lower4, lower4 >>]]

PriceOutOfRange(providedPrice, currentPrice, lower4, upper4) ==
  [type |-> "BadRequestException", errorCode |-> "VAL_002",
   message |-> "Price out of acceptable range",
   details |-> [providedPrice |-> providedPrice,
                currentPrice |-> currentPrice,
                allowedRange |-> << lower4, upper4 >>]]

VendorRejectedGeneric(message, symbol, price) ==
  [type |-> "BadRequestException", errorCode |-> "API_001",
   message |-> "Failed to execute trade",
   details |-> [symbol |-> symbol, price |-> price]]

VendorRejected(message, symbol, price) ==
  [type |-> "BadRequestException", errorCode |-> "API_001",
   message |-> message,
   details |-> [symbol |-> symbol, price |-> price]]

TradeNotFound(id) ==
  [type |-> "NotFoundException",
   message |-> "Trade with ID " \o ToString(id) \o " not found"]

\* error instanceof Error ? error.message : 'Unknown error'
ErrorMessage(error) ==
  IF error.type = "NonError" THEN "Unknown error" ELSE error.message

(***************************************************************************)
(* TradesHttpService.buyStock: one pass of the retry loop                  *)
(***************************************************************************)
maxRetries == 3

\* what one HTTP POST can come to
\*   ok          200 with a body
\*   badFormat   a 2xx answer that is not "200 with a body"
\*   http        an answer outside 2xx (axiosError.response is set)
\*   noResponse  no answer, a timeout included (only axiosError.request)
\*   setup       the request could not be built (neither is set)
VendorStatuses == {400, 404, 503}

VendorMessages == {"", "price too far from market"}

AttemptOutcomes ==
  {[kind |-> k, status |-> 0, message |-> ""] :
      k \in {"ok", "badFormat", "noResponse", "setup"}}
  \cup [kind : {"http"}, status : VendorStatuses, message : VendorMessages]

\* errorMessage.includes('price')
IncludesPrice(message) == message = "price too far from market"

BuyResponse(status, success, message) ==
  [status |-> status, success |-> success, message |-> message]

NoResponse == [status |-> 0, success |-> FALSE, message |-> ""]

buyStockAttemptAnyAnswer(symbol, attempt, outcome) ==
  LET isLastAttempt == attempt = maxRetries
      errorMessage  == IF outcome.message = "" THEN "Unknown error"
                       ELSE outcome.message
      retry         == [done |-> FALSE, response |-> NoResponse]
      return(r)     == [done |-> TRUE, response |-> r]
  IN  CASE outcome.kind \in {"ok", "badFormat"} ->
             return(BuyResponse(200, TRUE, "Trade executed successfully"))
        [] outcome.kind = "http" ->
             IF outcome.status = 400 /\ IncludesPrice(errorMessage)
             THEN return(BuyResponse(outcome.status, FALSE,
                                     "Price out of acceptable range"))
             ELSE IF isLastAttempt
             THEN IF outcome.status = 404
                  THEN return(BuyResponse(outcome.status, FALSE,
                         "Stock with symbol " \o symbol \o " not found"))
                  ELSE return(BuyResponse(outcome.status, FALSE, errorMessage))
             ELSE retry
        [] outcome.kind = "noResponse" ->
             IF isLastAttempt
             THEN return(BuyResponse(503, FALSE,
                         "Vendor API unavailable, please try again later"))
             ELSE retry
        [] OTHER ->
             IF isLastAttempt
             THEN return(BuyResponse(500, FALSE,
                         "Error connecting to vendor API"))
             ELSE retry

\* [done, response]: done = FALSE means the loop goes on to attempt + 1
buyStockAttempt(symbol, attempt, outcome) ==
  LET isLastAttempt == attempt = maxRetries
      errorMessage  == IF outcome.message = "" THEN "Unknown error"
                       ELSE outcome.message
      retry         == [done |-> FALSE, response |-> NoResponse]
      return(r)     == [done |-> TRUE, response |-> r]
  IN  CASE outcome.kind = "ok" ->
             return(BuyResponse(200, TRUE, "Trade executed successfully"))
        [] outcome.kind = "http" ->
             IF outcome.status = 400 /\ IncludesPrice(errorMessage)
             THEN return(BuyResponse(outcome.status, FALSE,
                                     "Price out of acceptable range"))
             ELSE IF isLastAttempt
             THEN IF outcome.status = 404
                  THEN return(BuyResponse(outcome.status, FALSE,
                         "Stock with symbol " \o symbol \o " not found"))
                  ELSE return(BuyResponse(outcome.status, FALSE, errorMessage))
             ELSE retry
        [] outcome.kind = "noResponse" ->
             IF isLastAttempt
             THEN return(BuyResponse(503, FALSE,
                         "Vendor API unavailable, please try again later"))
             ELSE retry
        [] OTHER ->
             IF isLastAttempt
             THEN return(BuyResponse(500, FALSE,
                         "Error connecting to vendor API"))
             ELSE retry

(***************************************************************************)
(* StocksHttpService.getStocks: one pass of the retry loop                 *)
(***************************************************************************)
stocksMaxRetries == 3

HttpException(status, message) ==
  [type |-> "HttpException", status |-> status, message |-> message]

\* the page a 200 answer carries; its content is not looked at here
VendorPage == [items |-> << >>, nextToken |-> Null]

\* [done, kind, value]: done = FALSE means the loop goes on to attempt + 1;
\* otherwise the call returns value or throws it
getStocksAttempt(attempt, outcome) ==
  LET isLastAttempt == attempt = stocksMaxRetries
      retry         == [done |-> FALSE, kind |-> "none", value |-> NoError]
      throw(e)      == [done |-> TRUE, kind |-> "thrown", value |-> e]
  IN  CASE outcome.kind = "ok" ->
             [done |-> TRUE, kind |-> "returned", value |-> VendorPage]
        [] outcome.kind = "http" ->
             IF isLastAttempt
             THEN throw(HttpException(502,
                    "Failed to fetch stocks after "
                      \o ToString(stocksMaxRetries) \o " attempts"))
             ELSE retry
        [] outcome.kind = "noResponse" ->
             IF isLastAttempt
             THEN throw(HttpException(503,
                    "Vendor API unavailable after "
                      \o ToString(stocksMaxRetries) \o " attempts"))
             ELSE retry
        [] OTHER ->
             IF isLastAttempt
             THEN throw(HttpException(500, "Error connecting to vendor API"))
             ELSE retry

(***************************************************************************)
(* The vendor's catalog behind GET /stocks: a fixed number of pages, each  *)
(* answered with its items and, unless it is the last, the continuation    *)
(* token of the next page.  "" stands for no token (undefined or null)     *)
(***************************************************************************)
\* the catalog has up to this many pages
MaxVendorPages == 3

VendorToken(k) == "cursor-" \o ToString(k) \o "-" \o ToString(k + 1)

VendorItems(k) ==
  << [symbol |-> "STK" \o ToString(k), name |-> "Stock " \o ToString(k),
      price |-> 1000 * k] >>

StockSymbols == {VendorItems(k)[1].symbol : k \in 1..MaxVendorPages}

\* the page a token continues to
PageOfToken(token) ==
  IF token = "" THEN 1
  ELSE 1 + CHOOSE k \in 1..MaxVendorPages : VendorToken(k) = token

\* the answer of the vendor to GET /stocks?nextToken=token, as
\* stocksHttpService.getStocks returns it
vendorGetStocks(pages, token) ==
  LET k == PageOfToken(token)
  IN  [items |-> VendorItems(k),
       nextToken |-> IF k < pages THEN VendorToken(k) ELSE ""]

(***************************************************************************)
(* PaginationService                                                       *)
(***************************************************************************)
\* the cache after storeToken(page, nextToken)
storeTokenUnderPage(tokens, page, nextToken) ==
  [tokens EXCEPT ![page] = nextToken]

storeTokenTwoAhead(tokens, page, nextToken) ==
  IF page + 2 \in DOMAIN tokens THEN [tokens EXCEPT ![page + 2] = nextToken]
  ELSE [tokens EXCEPT ![page + 1] = nextToken]

storeToken(tokens, page, nextToken) ==
  [tokens EXCEPT ![page + 1] = nextToken]

\* for page > 1, where the cache is read
getTokenMiss(tokens, page) == ""

getToken(tokens, page) == tokens[page]

\* hasNext is hasNextPage, estimated is estimatedTotalItems, with 0 standing
\* for the argument left out
createPaginationResponseNoEstimate(items, page, limit, hasNext, estimated) ==
  LET totalItems ==
        IF hasNext THEN page * limit + 1
        ELSE page * limit - limit + Len(items)
  IN  [items |-> items, page |-> page, limit |-> limit,
       totalItems |-> totalItems,
       totalPages |-> (totalItems + limit - 1) \div limit,
       hasNextPage |-> hasNext, hasPreviousPage |-> page > 1]

createPaginationResponse(items, page, limit, hasNext, estimated) ==
  LET totalItems ==
        IF estimated # 0 THEN estimated
        ELSE IF hasNext THEN page * limit + 1
        ELSE page * limit - limit + Len(items)
  IN  [items |-> items, page |-> page, limit |-> limit,
       totalItems |-> totalItems,
       totalPages |-> (totalItems + limit - 1) \div limit,
       hasNextPage |-> hasNext, hasPreviousPage |-> page > 1]

(***************************************************************************)
(* PortfolioService.updatePortfolio, after its findOne                     *)
(*   existing  quantity of the holding findOne returned, 0 for none        *)
(*   stored    quantity in the table now, 0 for no row                     *)
(* [ok, quantity]: the row's quantity afterwards (0: no row); ok = FALSE   *)
(* when the insert hits the unique key (userId, symbol)                    *)
(***************************************************************************)
updatePortfolioWriteOverwrite(existing, stored, quantity) ==
  IF quantity > 0 THEN [ok |-> TRUE, quantity |-> quantity]
  ELSE [ok |-> TRUE, quantity |-> stored]

updatePortfolioWrite(existing, stored, quantity) ==
  IF existing # 0
  THEN IF existing + quantity <= 0
       THEN [ok |-> TRUE, quantity |-> 0]
       ELSE [ok |-> TRUE, quantity |-> existing + quantity]
  ELSE IF quantity > 0
       THEN IF stored # 0
            THEN [ok |-> FALSE, quantity |-> stored]
            ELSE [ok |-> TRUE, quantity |-> quantity]
       ELSE [ok |-> TRUE, quantity |-> stored]

UniqueViolation ==
  Err("duplicate key value violates unique constraint")

(***************************************************************************)
(* State                                                                   *)
(*   trades     the trades table: row i has the generated id i             *)
(*   holdings   the portfolios table: quantity per (userId, symbol), 0     *)
(*              for no row (the table has a unique key on the pair)        *)
(*   calls      per request slot: the arguments and locals of the          *)
(*              buyStock invocation it runs and the await it is            *)
(*              suspended at, or how the invocation ended                  *)
(*   log        per request slot: the calls the invocation has issued to   *)
(*              its collaborators, in order, with their outcome            *)
(*   started    number of buyStock invocations so far                      *)
(*   saveThrew  number of invocations whose initial save threw             *)
(*   faultsLeft number of unexpected I/O errors the run may still see      *)
(*   maxActive  number of invocations that may overlap in this run         *)
(*   tol        a requested price and a quote (in cents) given to          *)
(*              isPriceWithinTolerance, and its answer                     *)
(*   pager      the vendor's catalog (its number of pages, which does not  *)
(*              change), the cache entries pagination:page:N ("" for none) *)
(*              and the number of getStocks(page, limit) requests so far   *)
(*   reqs       per request slot: the arguments and locals of the          *)
(*              getStocks(page, limit) invocation it runs, the vendor      *)
(*              calls it made, the tokens it stored and how it ended       *)
(*   stocks     the price held per symbol in the persisted store and in    *)
(*              the cache entries stock:{symbol} (0 for none), the         *)
(*              lastFetchedAt of each stored record (NoTime for null),     *)
(*              the time each cache entry was set, and the cache entry     *)
(*              stocks:all (its list and the time it was set)              *)
(*   clock      the time, in ticks of TickSeconds                          *)
(*   quotes     the getStockBySymbol(symbol) invocations: how many were    *)
(*              made and, per slot, the arguments and locals of the one    *)
(*              it runs, what it read and wrote and how it ended           *)
(*   folio      the portfolios table as PortfolioService sees it: its rows *)
(*              (id, userId, symbol, quantity), the next generated id,     *)
(*              and the updatePortfolio invocations: per slot the          *)
(*              arguments and locals of the one it runs and how it ended,  *)
(*              and the invocations that returned, in that order           *)
(*   walk       a walk through getUserPortfolio(userId, nextToken): the    *)
(*              rows of the portfolios table, the token of the next call   *)
(*              (a base64 text as the sequence of its characters' indices  *)
(*              in the base64 alphabet, 64 for '='; << >> for none), the   *)
(*              decoded offset, the pages returned so far and how the      *)
(*              walk ended                                                 *)
(*   report     a run of ReportService.generateDailyReport(date): the rows *)
(*              of the trades table (timestamps in ms), the number of      *)
(*              configured recipients, the reported date, the trades the   *)
(*              query found, the context built from them, the number of    *)
(*              renderTemplate and sendEmail calls made, and the boolean   *)
(*              it returned ("none" while it runs)                         *)
(*   vendor     a call of a vendor client (StocksHttpService.getStocks or  *)
(*              TradesHttpService.buyStock) on its own: the attempt it is  *)
(*              at, what each HTTP attempt came to, the backoff delays it  *)
(*              slept (ms, the jitter included) and how it ended            *)
(***************************************************************************)
VARIABLES trades, holdings, calls, log, started, saveThrew, faultsLeft,
          maxActive, tol, vendor, pager, reqs, stocks, clock, quotes, folio,
          walk, report, queue, feed, shelf

vars == << trades, holdings, calls, log, started, saveThrew, faultsLeft,
           maxActive, tol, vendor, pager, reqs, stocks, clock, quotes, folio,
           walk, report, queue, feed, shelf >>

webVars == << feed, shelf >>

bookVars == << folio, walk, report, queue, webVars >>

pageVars == << pager, reqs, stocks >>

restVars == << clock, quotes, folio, walk, report, queue, webVars >>

tradeTables == << trades, holdings, calls, log, started, saveThrew >>

tradeVars == << trades, holdings, calls, log, started, saveThrew, faultsLeft,
                maxActive >>

Pairs == Users \X Symbols

NoResult == [kind |-> "none", value |-> NoError]

IdleCall ==
  [pc |-> "idle", userId |-> "", symbol |-> "", price |-> 0, quantity |-> 0,
   tradeId |-> 0, stockPrice |-> 0, attempt |-> 0, buyMessage |-> "",
   existing |-> 0, error |-> NoError, result |-> NoResult]

NoCheck == [requested |-> 0, current |-> 0, answer |-> "none"]

\* pages 1..MaxPage are asked for, with these limits
MaxPage == 3

MaxRequests == 2

\* this many getStockBySymbol lookups are made
MaxLookups == 2

Limits == {1, 2}

Requests == 1..MaxActive

IdleReq ==
  [pc |-> "idle", page |-> 0, limit |-> 0, fetchToken |-> "",
   currentPage |-> 0, currentToken |-> "", items |-> << >>,
   nextToken |-> "", cached |-> "", reads |-> 0, calls |-> << >>,
   stored |-> << >>,
   result |-> NoResult]

NoTokens == [k \in 1..(MaxPage + 1) |-> ""]

\* a Date that is null
NoTime == -1

NoList == [at |-> NoTime, items |-> << >>]

NoStocks ==
  [store |-> [s \in StockSymbols |-> 0], cache |-> [s \in StockSymbols |-> 0],
   fetchedAt |-> [s \in StockSymbols |-> NoTime],
   cachedAt |-> [s \in StockSymbols |-> NoTime], all |-> NoList]

IdleLookup ==
  [pc |-> "idle", symbol |-> "", price |-> 0, at |-> 0,
   stocks |-> << >>, nextToken |-> "", dto |-> 0, seen |-> << >>,
   result |-> NoResult, times |-> << >>, pricedAt |-> NoTime,
   age |-> NoTime]

\* this many updatePortfolio invocations are made
MaxUpdates == 3

IdleUpdate ==
  [pc |-> "idle", userId |-> "", symbol |-> "", quantity |-> 0,
   existing |-> [id |-> 0, quantity |-> 0], result |-> NoResult]

IdleFolio ==
  [rows |-> {}, nextId |-> 1, made |-> 0,
   slots |-> [u \in 1..MaxUpdates |-> IdleUpdate], returned |-> << >>]

IdleWalk ==
  [pc |-> "idle", userId |-> "", rows |-> {}, nextToken |-> << >>,
   offset |-> 0, pages |-> << >>, result |-> NoResult]

NoContext ==
  [totalTrades |-> 0, successCount |-> 0, failedCount |-> 0,
   failureReasons |-> << >>]

IdleReport ==
  [pc |-> "idle", table |-> << >>, recipients |-> 0, reportDate |-> 0,
   trades |-> << >>, context |-> NoContext, rendered |-> 0, sent |-> 0,
   result |-> "none"]

\* no job was added to the reports queue and POST /reports/generate was
\* not requested
NoJob ==
  [state |-> "none", origin |-> "", date |-> NoTime, attemptsMade |-> 0,
   delays |-> << >>, attempts |-> << >>, faultsBefore |-> 0]

NoReply == [success |-> FALSE, message |-> "none"]

IdleQueue == [job |-> NoJob, adds |-> << >>, answer |-> NoReply]

\* no GET /stocks?nextToken= request was made
IdleFeed == [asked |-> 0]

\* no GET /portfolio/:userId request and no update was made
IdleShelf == [asked |-> 0]

\* no updatePortfolio, getUserPortfolio or generateDailyReport is invoked
InitBooksIdle ==
  /\ queue = IdleQueue
  /\ feed = IdleFeed
  /\ shelf = IdleShelf
  /\ folio = IdleFolio
  /\ walk = IdleWalk
  /\ report = IdleReport

\* no getStockBySymbol(symbol) lookup is made and no time passes
InitQuotesIdle ==
  /\ clock = 0
  /\ quotes = [asked |-> 0, slots |-> [q \in 1..MaxLookups |-> IdleLookup]]
  /\ InitBooksIdle

\* no getStocks(page, limit) request is made
InitPagesIdle ==
  /\ pager = [catalog |-> 1, tokens |-> NoTokens, asked |-> 0]
  /\ reqs = [r \in Requests |-> IdleReq]
  /\ stocks = NoStocks
  /\ InitQuotesIdle

IdleVendor ==
  [op |-> "none", symbol |-> "", pc |-> "idle", attempt |-> 0,
   trace |-> << >>, sleeps |-> << >>, result |-> NoResult]

InitTables ==
  /\ trades = << >>
  /\ holdings = [pr \in Pairs |-> 0]
  /\ calls = [c \in Calls |-> IdleCall]
  /\ log = [c \in Calls |-> << >>]
  /\ started = 0
  /\ saveThrew = 0

\* requests are served one after the other; I/O steps may fail
Init ==
  /\ InitTables
  /\ tol = NoCheck
  /\ vendor = IdleVendor
  /\ InitPagesIdle
  /\ faultsLeft = MaxFaults
  /\ maxActive = 1

\* requests overlap; no I/O step fails
InitOverlap ==
  /\ InitTables
  /\ tol = NoCheck
  /\ vendor = IdleVendor
  /\ InitPagesIdle
  /\ faultsLeft = 0
  /\ maxActive = MaxActive

Active(c) == calls[c].pc \notin {"idle", "done"}

Event(op, ok, arg) == [op |-> op, ok |-> ok, arg |-> arg]

Logged(c, ev) == log' = [log EXCEPT ![c] = Append(@, ev)]

\* the I/O step of this action raises an unexpected error
Fault == faultsLeft > 0 /\ faultsLeft' = faultsLeft - 1

NoFault == UNCHANGED faultsLeft

\* an exception raised inside the try block enters the catch handler
Caught(c, err) ==
  calls' = [calls EXCEPT ![c].pc = "catchRead", ![c].error = err]

\* the invocation ends: it returns a value or throws; its locals are gone
Ended(c, kind, value) ==
  calls' = [calls EXCEPT ![c] =
              [IdleCall EXCEPT !.pc = "done", !.userId = calls[c].userId,
                               !.symbol = calls[c].symbol,
                               !.price = calls[c].price,
                               !.quantity = calls[c].quantity,
                               !.tradeId = calls[c].tradeId,
                               !.result = [kind |-> kind, value |-> value]]]

\* buyStock(userId, symbol, {price, quantity}) is invoked on the lowest free
\* request slot; its first await is the save of the PENDING trade
StartCallLookupFirst(c) ==
  /\ ~ Active(c)
  /\ \A d \in Calls : d < c => Active(d)
  /\ started < MaxCalls
  /\ Cardinality({d \in Calls : Active(d)}) < maxActive
  /\ \E u \in Users, s \in Symbols, p \in RequestPrices, q \in Quantities :
       calls' = [calls EXCEPT ![c] =
                   [IdleCall EXCEPT !.pc = "quote", !.userId = u,
                                    !.symbol = s, !.price = p,
                                    !.quantity = q]]
  /\ log' = [log EXCEPT ![c] = << >>]
  /\ started' = started + 1
  /\ UNCHANGED << trades, holdings, saveThrew, faultsLeft, maxActive, tol, vendor, pageVars, restVars >>

StartCall(c) ==
  /\ ~ Active(c)
  /\ \A d \in Calls : d < c => Active(d)
  /\ started < MaxCalls
  /\ Cardinality({d \in Calls : Active(d)}) < maxActive
  /\ \E u \in Users, s \in Symbols, p \in RequestPrices, q \in Quantities :
       calls' = [calls EXCEPT ![c] =
                   [IdleCall EXCEPT !.pc = "save", !.userId = u,
                                    !.symbol = s, !.price = p,
                                    !.quantity = q]]
  /\ log' = [log EXCEPT ![c] = << >>]
  /\ started' = started + 1
  /\ UNCHANGED << trades, holdings, saveThrew, faultsLeft, maxActive, tol, vendor, pageVars, restVars >>

\* the trades table after tradeRepository.save of a new entity
SaveTradeTwice(table, row) == Append(Append(table, row), row)

SaveTrade(table, row) == Append(table, row)

\* await this.tradeRepository.save(trade), outside the try block
SavePending(c) ==
  /\ calls[c].pc = "save"
  /\ \/ /\ trades' = SaveTrade(trades,
                        [userId |-> calls[c].userId,
                         symbol |-> calls[c].symbol,
                         price |-> calls[c].price,
                         quantity |-> calls[c].quantity,
                         status |-> PENDING, reason |-> Null])
        /\ calls' = [calls EXCEPT ![c].pc = "quote",
                                  ![c].tradeId = Len(trades) + 1]
        /\ Logged(c, Event("tradeRepository.save", TRUE, PENDING))
        /\ NoFault
        /\ UNCHANGED saveThrew
     \/ \E err \in Throwables :
          /\ Fault
          /\ Ended(c, "thrown", err)
          /\ Logged(c, Event("tradeRepository.save", FALSE, PENDING))
          /\ saveThrew' = saveThrew + 1
          /\ UNCHANGED trades
  /\ UNCHANGED << holdings, started, maxActive, tol, vendor, pageVars, restVars >>

\* await this.stocksService.getStockBySymbol(symbol), then the tolerance
\* check on the quote
GetQuote(c) ==
  /\ calls[c].pc = "quote"
  /\ \/ \E p \in QuotePrices :
          LET isPriceValid == isPriceWithinTolerance(Cents(calls[c].price),
                                                     Cents(p))
          IN  /\ calls' = [calls EXCEPT
                    ![c].stockPrice = p,
                    ![c].pc = IF isPriceValid THEN "vendor" ELSE "failRange",
                    ![c].attempt = 1]
              /\ log' = [log EXCEPT ![c] = @ \o
                    << Event("stocksService.getStockBySymbol", TRUE, p),
                       Event("isPriceWithinTolerance", isPriceValid, p) >>]
              /\ NoFault
     \/ /\ Caught(c, StockNotFound(calls[c].symbol))
        /\ Logged(c, Event("stocksService.getStockBySymbol", FALSE, 404))
        /\ NoFault
     \/ \E err \in Throwables :
          /\ Fault
          /\ Caught(c, err)
          /\ Logged(c, Event("stocksService.getStockBySymbol", FALSE, 0))
  /\ UNCHANGED << trades, holdings, started, saveThrew, maxActive, tol, vendor, pageVars, restVars >>

\* a call of this.updateTradeStatus(trade.id, status, reason) that completes
StatusWritten(c, status, reason) ==
  /\ trades' = [trades EXCEPT ![calls[c].tradeId] =
                                 updateTradeStatus(@, status, reason)]
  /\ Logged(c, Event("tradeRepository.update", TRUE, status))
  /\ NoFault

\* one that throws
StatusWriteFailed(c, status) ==
  /\ Fault
  /\ UNCHANGED trades
  /\ Logged(c, Event("tradeRepository.update", FALSE, status))

\* price out of tolerance: FAILED with the range as reason, then VAL_002
FailRange(c) ==
  /\ calls[c].pc = "failRange"
  /\ LET lower4 == ToFixed4(ToleranceLower(Cents(calls[c].stockPrice)))
         upper4 == ToFixed4(ToleranceUpper(Cents(calls[c].stockPrice)))
     IN  \/ /\ StatusWritten(c, FAILED,
                 Str(RangeReason(calls[c].stockPrice, lower4, upper4)))
            /\ Caught(c, PriceOutOfRange(calls[c].price, calls[c].stockPrice,
                                         lower4, upper4))
         \/ \E err \in Throwables :
              /\ StatusWriteFailed(c, FAILED)
              /\ Caught(c, err)
  /\ UNCHANGED << holdings, started, saveThrew, maxActive, tol, vendor, pageVars, restVars >>

\* one HTTP attempt of this.tradesHttpService.buyStock(symbol, buyStockDto)
\* with its catch clause; the backoff sleep precedes the next attempt.  The
\* log keeps for each attempt the 5xx status it was answered with (0 for any
\* other outcome) and, when the operation returns, its response
VendorAttempt(c) ==
  /\ calls[c].pc = "vendor"
  /\ calls[c].attempt <= maxRetries
  /\ \E outcome \in AttemptOutcomes :
       LET r == buyStockAttempt(calls[c].symbol, calls[c].attempt, outcome)
       IN  /\ calls' = [calls EXCEPT
                 ![c].pc = IF ~ r.done THEN "vendor"
                           ELSE IF r.response.success = FALSE
                           THEN "failVendor" ELSE "markSuccess",
                 ![c].attempt = IF r.done THEN @ ELSE @ + 1,
                 ![c].buyMessage = r.response.message]
           /\ log' = [log EXCEPT ![c] = @ \o
                 << Event("httpClient.post", outcome.kind = "ok",
                          IF outcome.kind = "http" /\ outcome.status >= 500
                          THEN outcome.status ELSE 0) >> \o
                 (IF r.done
                  THEN << Event("tradesHttpService.buyStock",
                                r.response.success, r.response) >>
                  ELSE << >>)]
  /\ UNCHANGED << trades, holdings, started, saveThrew, faultsLeft,
                  maxActive, tol, vendor, pageVars, restVars >>

\* the vendor reported failure: FAILED with its message, then API_001
FailVendor(c) ==
  /\ calls[c].pc = "failVendor"
  /\ \/ /\ StatusWritten(c, FAILED, Str(calls[c].buyMessage))
        /\ Caught(c, VendorRejected(calls[c].buyMessage, calls[c].symbol,
                                    calls[c].price))
     \/ \E err \in Throwables :
          /\ StatusWriteFailed(c, FAILED)
          /\ Caught(c, err)
  /\ UNCHANGED << holdings, started, saveThrew, maxActive, tol, vendor, pageVars, restVars >>

\* await this.updateTradeStatus(trade.id, TradeStatus.SUCCESS)
MarkSuccess(c) ==
  /\ calls[c].pc = "markSuccess"
  /\ \/ /\ StatusWritten(c, SUCCESS, Null)
        /\ calls' = [calls EXCEPT ![c].pc = "portfolioFind"]
     \/ \E err \in Throwables :
          /\ StatusWriteFailed(c, SUCCESS)
          /\ Caught(c, err)
  /\ UNCHANGED << holdings, started, saveThrew, maxActive, tol, vendor, pageVars, restVars >>

\* the arguments buyStock passes to updatePortfolio
PortfolioArgsUnit(call) == << call.userId, call.symbol, 1 >>

PortfolioArgs(call) == << call.userId, call.symbol, call.quantity >>

\* updatePortfolio(userId, symbol, quantity) is called:
\* await this.portfolioRepository.findOne({userId, symbol})
PortfolioFind(c) ==
  /\ calls[c].pc = "portfolioFind"
  /\ LET args == PortfolioArgs(calls[c])
     IN  \/ /\ calls' = [calls EXCEPT
                 ![c].pc = "portfolioWrite",
                 ![c].existing = holdings[<< args[1], args[2] >>]]
            /\ Logged(c, Event("portfolioService.updatePortfolio", TRUE, args))
            /\ NoFault
         \/ \E err \in Throwables :
              /\ Fault
              /\ Caught(c, err)
              /\ Logged(c, Event("portfolioService.updatePortfolio", FALSE,
                                 args))
  /\ UNCHANGED << trades, holdings, started, saveThrew, maxActive, tol, vendor, pageVars, restVars >>

\* updatePortfolio: the remove or save that follows the findOne
PortfolioWrite(c) ==
  /\ calls[c].pc = "portfolioWrite"
  /\ LET args == PortfolioArgs(calls[c])
         pr   == << args[1], args[2] >>
         w    == updatePortfolioWrite(calls[c].existing, holdings[pr],
                                      args[3])
     IN  \/ /\ w.ok
            /\ holdings' = [holdings EXCEPT ![pr] = w.quantity]
            /\ calls' = [calls EXCEPT ![c].pc = "finalRead"]
            /\ Logged(c, Event("portfolioRepository.save", TRUE, w.quantity))
            /\ NoFault
         \/ /\ ~ w.ok
            /\ UNCHANGED holdings
            /\ Caught(c, UniqueViolation)
            /\ Logged(c, Event("portfolioRepository.save", FALSE, 0))
            /\ NoFault
         \/ \E err \in Throwables :
              /\ Fault
              /\ UNCHANGED holdings
              /\ Caught(c, err)
              /\ Logged(c, Event("portfolioRepository.save", FALSE, 0))
  /\ UNCHANGED << trades, started, saveThrew, maxActive, tol, vendor, pageVars, restVars >>

\* the trade row with the given id, as findOne returns it
FindTrade(id) ==
  IF id \in DOMAIN trades THEN [found |-> TRUE, row |-> trades[id]]
  ELSE [found |-> FALSE, row |-> Null]

\* the re-read of the trade for the response
FinalRead(c) ==
  /\ calls[c].pc = "finalRead"
  /\ LET updatedTrade == FindTrade(calls[c].tradeId)
     IN  \/ /\ updatedTrade.found
            /\ Ended(c, "returned",
                     mapToTradeResponseDto(calls[c].tradeId, updatedTrade.row))
            /\ Logged(c, Event("tradeRepository.findOne", TRUE, "final"))
            /\ NoFault
         \/ /\ ~ updatedTrade.found
            /\ Caught(c, TradeNotFound(calls[c].tradeId))
            /\ Logged(c, Event("tradeRepository.findOne", TRUE, "final"))
            /\ NoFault
         \/ \E err \in Throwables :
              /\ Fault
              /\ Caught(c, err)
              /\ Logged(c, Event("tradeRepository.findOne", FALSE, "final"))
  /\ UNCHANGED << trades, holdings, started, saveThrew, maxActive, tol, vendor, pageVars, restVars >>

\* catch: the handler writes FAILED only over a trade it finds PENDING
CatchNeedsUpdateAlways(currentTrade) == currentTrade.found

CatchNeedsUpdate(currentTrade) ==
  currentTrade.found /\ currentTrade.row.status = PENDING

\* catch: await this.tradeRepository.findOne({ id: trade.id })
CatchRead(c) ==
  /\ calls[c].pc = "catchRead"
  /\ \/ /\ IF CatchNeedsUpdate(FindTrade(calls[c].tradeId))
           THEN calls' = [calls EXCEPT ![c].pc = "catchUpdate"]
           ELSE Ended(c, "thrown", calls[c].error)
        /\ Logged(c, Event("tradeRepository.findOne", TRUE, "catch"))
        /\ NoFault
     \/ \E err \in Throwables :
          /\ Fault
          /\ Ended(c, "thrown", err)
          /\ Logged(c, Event("tradeRepository.findOne", FALSE, "catch"))
  /\ UNCHANGED << trades, holdings, started, saveThrew, maxActive, tol, vendor, pageVars, restVars >>

\* catch: FAILED with the error's message, then rethrow
CatchUpdate(c) ==
  /\ calls[c].pc = "catchUpdate"
  /\ \/ /\ StatusWritten(c, FAILED, Str(ErrorMessage(calls[c].error)))
        /\ Ended(c, "thrown", calls[c].error)
     \/ \E err \in Throwables :
          /\ StatusWriteFailed(c, FAILED)
          /\ Ended(c, "thrown", err)
  /\ UNCHANGED << holdings, started, saveThrew, maxActive, tol, vendor, pageVars, restVars >>

Next ==
  \E c \in Calls :
    \/ StartCall(c)
    \/ SavePending(c)
    \/ GetQuote(c)
    \/ FailRange(c)
    \/ VendorAttempt(c)
    \/ FailVendor(c)
    \/ MarkSuccess(c)
    \/ PortfolioFind(c)
    \/ PortfolioWrite(c)
    \/ FinalRead(c)
    \/ CatchRead(c)
    \/ CatchUpdate(c)

Spec == Init /\ [][Next]_vars

SpecOverlap == InitOverlap /\ [][Next]_vars

(***************************************************************************)
(* The tolerance rule on its own: isPriceWithinTolerance applied to a      *)
(* requested price and a quote, both two-decimal prices given in cents     *)
(***************************************************************************)
\* every pair of prices up to this many cents is tried
MaxTolCents == 60

\* quotes beyond that range: 3.50, 7.00 and 14.50 have inexact band edges,
\* 150.00 is the documented example
SampleQuotes == {350, 700, 1450, 15000, 20000000}

\* requested prices around the two edges of the band of a quote
NearEdges(p) ==
  {(98 * p) \div 100 + d : d \in -1..1} \cup
  {(102 * p) \div 100 + d : d \in -1..1}

TolInputs ==
  ((1..(MaxTolCents + 2)) \X (1..MaxTolCents)) \cup
  {<< r, p >> \in UNION {NearEdges(q) \X {q} : q \in SampleQuotes} : r >= 1}

InitTolerance ==
  /\ InitTables
  /\ faultsLeft = 0
  /\ maxActive = 0
  /\ vendor = IdleVendor
  /\ InitPagesIdle
  /\ \E in \in TolInputs :
       tol = [requested |-> in[1], current |-> in[2], answer |-> "none"]

CheckTolerance ==
  /\ tol.requested # 0
  /\ tol.answer = "none"
  /\ tol' = [tol EXCEPT !.answer =
               IF isPriceWithinTolerance(Cents(tol.requested),
                                         Cents(tol.current))
               THEN "accepted" ELSE "rejected"]
  /\ UNCHANGED << tradeVars, vendor, pageVars, restVars >>

NextTolerance == CheckTolerance

SpecTolerance == InitTolerance /\ [][NextTolerance]_vars

(***************************************************************************)
(* The vendor clients on their own: one call of getStocks or of buyStock   *)
(* at a time, every HTTP attempt coming to any outcome                     *)
(***************************************************************************)
VendorOps == {"getStocks", "buyStock"}

InitVendor ==
  /\ InitTables
  /\ faultsLeft = 0
  /\ maxActive = 0
  /\ tol = NoCheck
  /\ vendor = IdleVendor
  /\ InitPagesIdle

\* getStocks(nextToken) or buyStock(symbol, buyStockDto) is called: the loop
\* starts with attempt = 1
VendorCall ==
  /\ vendor.pc \in {"idle", "done"}
  /\ \E op \in VendorOps, s \in Symbols :
       vendor' = [IdleVendor EXCEPT !.op = op, !.symbol = s,
                                    !.pc = "attempt", !.attempt = 1]
  /\ UNCHANGED << tradeVars, tol, pageVars, restVars >>

\* the loop bound of the operation
MaxRetriesOf(op) == IF op = "getStocks" THEN stocksMaxRetries ELSE maxRetries

\* one pass of the loop body of the operation
AttemptOfNoRetry(op, symbol, attempt, outcome) ==
  IF op = "getStocks" THEN getStocksAttempt(stocksMaxRetries, outcome)
  ELSE LET r == buyStockAttempt(symbol, maxRetries, outcome)
       IN  [done |-> r.done, kind |-> "returned", value |-> r.response]

AttemptOf(op, symbol, attempt, outcome) ==
  IF op = "getStocks" THEN getStocksAttempt(attempt, outcome)
  ELSE LET r == buyStockAttempt(symbol, attempt, outcome)
       IN  [done |-> r.done, kind |-> "returned", value |-> r.response]

\* await this.httpClient.get(url) / post(url, buyStockDto) and the code
\* that follows it up to the return, the throw or the backoff sleep
HttpAttempt ==
  /\ vendor.pc = "attempt"
  /\ vendor.attempt <= MaxRetriesOf(vendor.op)
  /\ \E outcome \in AttemptOutcomes :
       LET r == AttemptOf(vendor.op, vendor.symbol, vendor.attempt, outcome)
       IN  vendor' = [vendor EXCEPT
             !.trace = Append(@, outcome),
             !.pc = IF r.done THEN "done" ELSE "sleep",
             !.result = IF r.done THEN [kind |-> r.kind, value |-> r.value]
                        ELSE @]
  /\ UNCHANGED << tradeVars, tol, pageVars, restVars >>

BackoffFlat(attempt) == 1000

\* Math.min(1000 * Math.pow(2, attempt - 1), 10000)
Backoff(attempt) ==
  LET doubled == 1000 * 2 ^ (attempt - 1)
  IN  IF doubled < 10000 THEN doubled ELSE 10000

\* Math.random() * 1000, in milliseconds: the least value, one in the
\* middle and the greatest whole one below 1000
Jitters == {0, 500, 999}

\* const delay = backoff + jitter; await new Promise(resolve =>
\* setTimeout(resolve, delay)), then attempt++
BackoffSleep ==
  /\ vendor.pc = "sleep"
  /\ \E jitter \in Jitters :
       vendor' = [vendor EXCEPT
                    !.sleeps = Append(@, Backoff(vendor.attempt) + jitter),
                    !.attempt = @ + 1,
                    !.pc = "attempt"]
  /\ UNCHANGED << tradeVars, tol, pageVars, restVars >>

NextVendor ==
  \/ VendorCall
  \/ HttpAttempt
  \/ BackoffSleep

\* the HTTP client has a timeout and the timer of the sleep fires: an attempt
\* and a sleep that have started come to an end
SpecVendor ==
  /\ InitVendor
  /\ [][NextVendor]_vars
  /\ WF_vars(HttpAttempt)
  /\ WF_vars(BackoffSleep)

(***************************************************************************)
(* StocksService.getStocks(page, limit), the offset-translated listing:    *)
(* overlapping requests against one catalog, with token entries expiring   *)
(***************************************************************************)
InitPages ==
  /\ InitTables
  /\ tol = NoCheck
  /\ vendor = IdleVendor
  /\ faultsLeft = MaxFaults
  /\ maxActive = MaxActive
  /\ \E n \in 1..MaxVendorPages :
       pager = [catalog |-> n, tokens |-> NoTokens, asked |-> 0]
  /\ reqs = [r \in Requests |-> IdleReq]
  /\ stocks = NoStocks
  /\ InitQuotesIdle

Busy(r) == reqs[r].pc \notin {"idle", "done"}

\* the request ends: it returns a value or throws; what it did is kept
\* (cached: the entry of its page when it read the cache, reads: its reads
\* of the cache, calls: its vendor calls, stored: the entries it wrote)
Finished(r, madeCalls, kind, value) ==
  reqs' = [reqs EXCEPT ![r] =
             [IdleReq EXCEPT !.pc = "done", !.page = reqs[r].page,
                             !.limit = reqs[r].limit,
                             !.cached = reqs[r].cached,
                             !.reads = reqs[r].reads,
                             !.calls = madeCalls,
                             !.stored = reqs[r].stored,
                             !.result = [kind |-> kind, value |-> value]]]

\* a vendor call of the request: the token it sent, the page the request
\* wanted from it and the answer
VendorCalled(token, forPage, ok, answer) ==
  [token |-> token, forPage |-> forPage, ok |-> ok, answer |-> answer]

NoAnswer == [items |-> << >>, nextToken |-> ""]

\* getStocks(page, limit) is invoked on the lowest free request slot
GetStocksCall(r) ==
  /\ ~ Busy(r)
  /\ \A q \in Requests : q < r => Busy(q)
  /\ pager.asked < MaxRequests
  /\ \E page \in 1..MaxPage, limit \in Limits :
       reqs' = [reqs EXCEPT ![r] =
                  [IdleReq EXCEPT !.pc = "getToken", !.page = page,
                                  !.limit = limit]]
  /\ pager' = [pager EXCEPT !.asked = @ + 1]
  /\ UNCHANGED << restVars, tradeTables, faultsLeft, maxActive, tol, vendor, stocks >>

\* const pageToken = await this.paginationService.getToken(page), then the
\* choice between the sequential walk and the single fetch
GetPageToken(r) ==
  /\ reqs[r].pc = "getToken"
  /\ LET page      == reqs[r].page
         pageToken == IF page <= 1 THEN "" ELSE getToken(pager.tokens, page)
     IN  reqs' = [reqs EXCEPT
           ![r].cached = pager.tokens[page],
           ![r].reads = IF page <= 1 THEN @ ELSE @ + 1,
           ![r].pc = IF pageToken = "" /\ page > 1 THEN "walk" ELSE "fetch",
           ![r].currentPage = IF pageToken = "" /\ page > 1 THEN 1 ELSE 0,
           ![r].currentToken = "",
           ![r].fetchToken = pageToken]
  /\ UNCHANGED << restVars, tradeTables, faultsLeft, maxActive, tol, vendor, pager,
                  stocks >>

\* in the loop while (currentPage < page):
\* await this.stocksHttpService.getStocks(currentToken); past the end of the
\* catalog the request returns an empty page
WalkFetch(r) ==
  /\ reqs[r].pc = "walk"
  /\ reqs[r].currentPage < reqs[r].page
  /\ \/ LET result == vendorGetStocks(pager.catalog, reqs[r].currentToken)
            called == VendorCalled(reqs[r].currentToken,
                                   reqs[r].currentPage, TRUE, result)
        IN  /\ IF result.nextToken = ""
               THEN Finished(r, Append(reqs[r].calls, called), "returned",
                      createPaginationResponse(<< >>, reqs[r].page,
                        reqs[r].limit, FALSE,
                        reqs[r].currentPage * reqs[r].limit))
               ELSE reqs' = [reqs EXCEPT
                      ![r].calls = Append(@, called),
                      ![r].nextToken = result.nextToken,
                      ![r].pc = "walkStore"]
            /\ NoFault
     \/ /\ Fault
        /\ Finished(r, Append(reqs[r].calls,
                             VendorCalled(reqs[r].currentToken,
                                          reqs[r].currentPage, FALSE,
                                          NoAnswer)),
                    "thrown",
                    HttpException(503, "Vendor API unavailable after "
                      \o ToString(stocksMaxRetries) \o " attempts"))
  /\ UNCHANGED << restVars, tradeTables, maxActive, tol, vendor, pager, stocks >>

\* await this.paginationService.storeToken(currentPage, result.nextToken);
\* currentToken = result.nextToken; currentPage++
WalkStore(r) ==
  /\ reqs[r].pc = "walkStore"
  /\ pager' = [pager EXCEPT !.tokens =
                 storeToken(@, reqs[r].currentPage, reqs[r].nextToken)]
  /\ reqs' = [reqs EXCEPT
       ![r].stored = Append(@, [page |-> reqs[r].currentPage + 1,
                                token |-> reqs[r].nextToken]),
       ![r].currentToken = reqs[r].nextToken,
       ![r].currentPage = @ + 1,
       ![r].nextToken = "",
       ![r].fetchToken = reqs[r].nextToken,
       ![r].pc = IF reqs[r].currentPage + 1 < reqs[r].page THEN "walk"
                 ELSE "fetch"]
  /\ UNCHANGED << restVars, tradeTables, faultsLeft, maxActive, tol, vendor, stocks >>

\* the fetch of the requested page:
\* await this.stocksHttpService.getStocks(currentToken) after the walk,
\* await this.stocksHttpService.getStocks(pageToken || undefined) otherwise
FetchPage(r) ==
  /\ reqs[r].pc = "fetch"
  /\ \/ LET result == vendorGetStocks(pager.catalog, reqs[r].fetchToken)
        IN  /\ reqs' = [reqs EXCEPT
                  ![r].calls = Append(@, VendorCalled(reqs[r].fetchToken,
                                                      reqs[r].page, TRUE,
                                                      result)),
                  ![r].items = result.items,
                  ![r].nextToken = result.nextToken,
                  ![r].pc = IF result.nextToken # "" THEN "storeNext"
                            ELSE "writeStore"]
            /\ NoFault
     \/ /\ Fault
        /\ Finished(r, Append(reqs[r].calls,
                             VendorCalled(reqs[r].fetchToken, reqs[r].page,
                                          FALSE, NoAnswer)),
                    "thrown",
                    HttpException(503, "Vendor API unavailable after "
                      \o ToString(stocksMaxRetries) \o " attempts"))
  /\ UNCHANGED << restVars, tradeTables, maxActive, tol, vendor, pager, stocks >>

\* if (nextToken) await this.paginationService.storeToken(page, nextToken)
StoreNextToken(r) ==
  /\ reqs[r].pc = "storeNext"
  /\ pager' = [pager EXCEPT !.tokens =
                 storeToken(@, reqs[r].page, reqs[r].nextToken)]
  /\ reqs' = [reqs EXCEPT
       ![r].stored = Append(@, [page |-> reqs[r].page + 1,
                                token |-> reqs[r].nextToken]),
       ![r].pc = "writeStore"]
  /\ UNCHANGED << restVars, tradeTables, faultsLeft, maxActive, tol, vendor, stocks >>

\* the prices of the items written over a price map
WriteItems(prices, items) ==
  [s \in DOMAIN prices |->
     IF \E i \in DOMAIN items : items[i].symbol = s
     THEN items[CHOOSE i \in DOMAIN items : items[i].symbol = s].price
     ELSE prices[s]]

\* the time t written over the times of the items
StampItems(times, items, t) ==
  [s \in DOMAIN times |->
     IF \E i \in DOMAIN items : items[i].symbol = s THEN t ELSE times[s]]

\* await this.updateStocksInDatabase(stocks)
WriteStore(r) ==
  /\ reqs[r].pc = "writeStore"
  /\ \/ /\ stocks' = [stocks EXCEPT
                        !.store = WriteItems(@, reqs[r].items),
                        !.fetchedAt = StampItems(@, reqs[r].items, clock)]
        /\ reqs' = [reqs EXCEPT ![r].pc = "writeCache"]
        /\ NoFault
     \/ \E err \in Throwables :
          /\ Fault
          /\ UNCHANGED stocks
          /\ Finished(r, reqs[r].calls, "thrown", err)
  /\ UNCHANGED << restVars, tradeTables, maxActive, tol, vendor, pager >>

\* await this.cacheStocks(stocks), then the pagination response
WriteCache(r) ==
  /\ reqs[r].pc = "writeCache"
  /\ stocks' = [stocks EXCEPT
                  !.cache = WriteItems(@, reqs[r].items),
                  !.cachedAt = StampItems(@, reqs[r].items, clock)]
  /\ Finished(r, reqs[r].calls, "returned",
       createPaginationResponse(reqs[r].items, reqs[r].page, reqs[r].limit,
                                reqs[r].nextToken # "", 0))
  /\ UNCHANGED << restVars, tradeTables, faultsLeft, maxActive, tol, vendor, pager >>

\* the entry pagination:page:k outlives its TTL of 600 s and is dropped
ExpireToken ==
  /\ \E k \in DOMAIN pager.tokens :
       /\ pager.tokens[k] # ""
       /\ pager' = [pager EXCEPT !.tokens[k] = ""]
  /\ UNCHANGED << restVars, tradeTables, faultsLeft, maxActive, tol, vendor, reqs,
                  stocks >>

NextPages ==
  \/ \E r \in Requests :
       \/ GetStocksCall(r)
       \/ GetPageToken(r)
       \/ WalkFetch(r)
       \/ WalkStore(r)
       \/ FetchPage(r)
       \/ StoreNextToken(r)
       \/ WriteStore(r)
       \/ WriteCache(r)
  \/ ExpireToken

SpecPages == InitPages /\ [][NextPages]_vars

(***************************************************************************)
(* StocksService.getStockBySymbol(symbol): the quote lookup through the    *)
(* cache entry stock:{symbol}, the persisted store and the vendor's whole  *)
(* catalog, for lookups that may overlap while time passes                 *)
(***************************************************************************)
\* private readonly cacheTTL = 300, in seconds
cacheTTL == 300

\* the clock counts ticks of this many seconds, up to MaxClock ticks
TickSeconds == 150

MaxClock == 2

\* this many awaits of the lookups reject
MaxLookupFaults == 1

LookupSymbols == {"STK1", "STK2"}

\* the lookups are those of buyStock requests, which carry a price of the
\* client; no vendor price equals it
ClientPrices == {999}

\* a cache entry set at time `at` with this.cacheTTL * 1000 is still there
CacheLive(at) ==
  at # NoTime /\ (clock - at) * TickSeconds * 1000 < cacheTTL * 1000

isStockCacheValidInclusive(lastFetchedAt, now) ==
  IF lastFetchedAt = NoTime THEN FALSE
  ELSE (now - lastFetchedAt) * TickSeconds * 1000 <= cacheTTL * 1000

isStockCacheValid(lastFetchedAt, now) ==
  IF lastFetchedAt = NoTime THEN FALSE
  ELSE (now - lastFetchedAt) * TickSeconds * 1000 < cacheTTL * 1000

FindStockFirst(items, symbol) ==
  IF items = << >> THEN 0 ELSE items[1].price

\* stocks.find(s => s.symbol === symbol): the price found, 0 for undefined
FindStock(items, symbol) ==
  IF \E i \in DOMAIN items : items[i].symbol = symbol
  THEN items[CHOOSE i \in DOMAIN items :
               /\ items[i].symbol = symbol
               /\ \A j \in 1..(i - 1) : items[j].symbol # symbol].price
  ELSE 0

\* the catalog's pages are served with these prices by the vendor
VendorPrice(symbol) ==
  LET k == CHOOSE k \in 1..MaxVendorPages : VendorItems(k)[1].symbol = symbol
  IN  VendorItems(k)[1].price

\* the store holds a record of STK1 from an earlier run: none, one whose
\* last_fetched_at column is null, or one fetched at time 0
StoreSeeds == {"none", "null", "fetched"}

SeededStocks(seed) ==
  IF seed = "none" THEN NoStocks
  ELSE [NoStocks EXCEPT
          !.store["STK1"] = VendorPrice("STK1"),
          !.fetchedAt["STK1"] = IF seed = "null" THEN NoTime ELSE 0]

\* the times at which the vendor gave the prices that the store, the
\* stock:{symbol} entries and stocks:all hold; the record of an earlier run
\* holds the price the vendor gave at time 0
\* (they are followed when `on` is set, and kept at 0 otherwise)
NoPriced ==
  [store |-> [s \in StockSymbols |-> 0], cache |-> [s \in StockSymbols |-> 0],
   all |-> << >>, on |-> FALSE]

\* the time at which the vendor gives a price
PricedNow == IF quotes.priced.on THEN clock ELSE 0

\* the times of the first n items written over a map of times
StampTimes(priced, items, times, n) ==
  [s \in DOMAIN priced |->
     IF \E i \in 1..n : items[i].symbol = s
     THEN times[CHOOSE i \in 1..n :
                  /\ items[i].symbol = s
                  /\ \A j \in (i + 1)..n : items[j].symbol # s]
     ELSE priced[s]]

\* the lookup returns a quote whose price the vendor gave at pricedAt
Aged(ended, q, pricedAt) ==
  [ended EXCEPT !.slots[q].age =
                  IF quotes.priced.on THEN clock - pricedAt ELSE NoTime]

InitQuotes ==
  /\ InitTables
  /\ tol = NoCheck
  /\ vendor = IdleVendor
  /\ faultsLeft = MaxLookupFaults
  /\ maxActive = MaxActive
  /\ \E n \in {1, MaxVendorPages} :
       pager = [catalog |-> n, tokens |-> NoTokens, asked |-> 0]
  /\ reqs = [r \in Requests |-> IdleReq]
  /\ \E seed \in StoreSeeds : stocks = SeededStocks(seed)
  /\ clock = 0
  /\ quotes = [asked |-> 0, slots |-> [q \in 1..MaxLookups |-> IdleLookup],
               priced |-> NoPriced]
  /\ InitBooksIdle

\* the lookups with the times of the prices followed
InitAges ==
  /\ InitTables
  /\ tol = NoCheck
  /\ vendor = IdleVendor
  /\ faultsLeft = MaxLookupFaults
  /\ maxActive = MaxActive
  /\ \E n \in {1, MaxVendorPages} :
       pager = [catalog |-> n, tokens |-> NoTokens, asked |-> 0]
  /\ reqs = [r \in Requests |-> IdleReq]
  /\ \E seed \in StoreSeeds : stocks = SeededStocks(seed)
  /\ clock = 0
  /\ quotes = [asked |-> 0, slots |-> [q \in 1..MaxLookups |-> IdleLookup],
               priced |-> [NoPriced EXCEPT !.on = TRUE]]
  /\ InitBooksIdle

Looking(q) == quotes.slots[q].pc \notin {"idle", "done"}

\* what a lookup did: the operation, whether it hit or succeeded, and its
\* argument or answer
Did(op, ok, arg) == [op |-> op, ok |-> ok, arg |-> arg]

\* the lookup goes on at pc, having done this
Goes(q, pc, did) ==
  [quotes EXCEPT !.slots[q].pc = pc, !.slots[q].seen = Append(@, did)]

\* the lookup ends: it returns the quote or throws; what it did is kept
Ends(q, did, kind, dto, err) ==
  [quotes EXCEPT
     !.slots[q] = [IdleLookup EXCEPT
                     !.pc = "done", !.symbol = quotes.slots[q].symbol,
                     !.price = quotes.slots[q].price,
                     !.at = quotes.slots[q].at,
                     !.seen = Append(quotes.slots[q].seen, did),
                     !.dto = dto,
                     !.result = [kind |-> kind, value |-> err]]]

\* the k-th getStockBySymbol(symbol) is invoked, on slot k
LookupCall(q) ==
  /\ q = quotes.asked + 1
  /\ q <= MaxLookups
  /\ Cardinality({p \in DOMAIN quotes.slots : Looking(p)}) < maxActive
  /\ \E symbol \in LookupSymbols, price \in ClientPrices :
       quotes' = [quotes EXCEPT
                    !.asked = q,
                    !.slots[q] = [IdleLookup EXCEPT
                                    !.pc = "cacheGet", !.symbol = symbol,
                                    !.price = price, !.at = clock]]
  /\ UNCHANGED << tradeVars, tol, vendor, pageVars, clock, bookVars >>

\* const cachedStock = await this.cacheManager.get(cacheKey), returned when
\* it is there
CacheGet(q) ==
  LET symbol == quotes.slots[q].symbol
      cachedStock ==
        IF CacheLive(stocks.cachedAt[symbol]) THEN stocks.cache[symbol] ELSE 0
  IN  /\ quotes.slots[q].pc = "cacheGet"
      /\ IF cachedStock # 0
         THEN quotes' = Aged(Ends(q, Did("cache.get", TRUE, cachedStock),
                                  "returned", cachedStock, NoError),
                             q, quotes.priced.cache[symbol])
         ELSE quotes' = Goes(q, "storeFind", Did("cache.get", FALSE, 0))
      /\ UNCHANGED << tradeVars, tol, vendor, pageVars, clock, bookVars >>

\* const stock = await this.stockRepository.findOne({ where: { symbol } }),
\* taken when isStockCacheValid(stock.lastFetchedAt)
StoreFind(q) ==
  LET symbol == quotes.slots[q].symbol
      stock == stocks.store[symbol]
      lastFetchedAt == stocks.fetchedAt[symbol]
      age == IF lastFetchedAt = NoTime THEN NoTime ELSE clock - lastFetchedAt
      did == Did("stockRepository.findOne", stock # 0, age)
  IN  /\ quotes.slots[q].pc = "storeFind"
      /\ IF stock # 0 /\ isStockCacheValid(lastFetchedAt, clock)
         THEN quotes' = [Goes(q, "cacheSetStored", did) EXCEPT
                           !.slots[q].dto = stock,
                           !.slots[q].pricedAt = quotes.priced.store[symbol]]
         ELSE quotes' = Goes(q, "allGet", did)
      /\ UNCHANGED << tradeVars, tol, vendor, pageVars, clock, bookVars >>

\* await this.cacheManager.set(cacheKey, stockDto, this.cacheTTL * 1000) of
\* the stored record; return stockDto
CacheSetStored(q) ==
  LET symbol == quotes.slots[q].symbol
      stockDto == quotes.slots[q].dto
  IN  /\ quotes.slots[q].pc = "cacheSetStored"
      /\ stocks' = [stocks EXCEPT !.cache[symbol] = stockDto,
                                  !.cachedAt[symbol] = clock]
      /\ quotes' = [Aged(Ends(q, Did("cache.set", TRUE, stockDto),
                                "returned", stockDto, NoError),
                           q, quotes.slots[q].pricedAt)
                      EXCEPT !.priced.cache[symbol] = quotes.slots[q].pricedAt]
      /\ UNCHANGED << tradeVars, tol, vendor, pager, reqs, clock, bookVars >>

\* const foundStock = stocks.find(s => s.symbol === symbol) over the list
\* that fetchStocksFromVendor returned; NotFoundException when it is not there
FoundIn(q, items, times, did) ==
  LET symbol == quotes.slots[q].symbol
      foundStock == FindStock(items, symbol)
      listed == {i \in DOMAIN items : items[i].symbol = symbol}
      pricedAt == IF listed = {} THEN NoTime
                  ELSE times[CHOOSE i \in listed : \A j \in listed : i <= j]
  IN  IF foundStock = 0
      THEN Ends(q, did, "thrown", 0, StockNotFound(symbol))
      ELSE [Goes(q, "cacheSetFound", did) EXCEPT
              !.slots[q].dto = foundStock, !.slots[q].pricedAt = pricedAt]

\* fetchStocksFromVendor: const cachedStocks = await
\* this.cacheManager.get('stocks:all'), returned when it is there
AllGet(q) ==
  /\ quotes.slots[q].pc = "allGet"
  /\ IF CacheLive(stocks.all.at)
     THEN quotes' = FoundIn(q, stocks.all.items, quotes.priced.all,
                            Did("cache.get.all", TRUE, 0))
     ELSE quotes' = Goes(q, "walk", Did("cache.get.all", FALSE, 0))
  /\ UNCHANGED << tradeVars, tol, vendor, pageVars, clock, bookVars >>

\* one round of the do/while loop: const result = await
\* this.stocksHttpService.getStocks(nextToken); its items are pushed and
\* the loop goes on while it has a nextToken
WalkPageStep(q) ==
  LET slot == quotes.slots[q]
      result == vendorGetStocks(pager.catalog, slot.nextToken)
      did == Did("stocksHttpService.getStocks", TRUE,
                 PageOfToken(slot.nextToken))
  IN  [Goes(q, IF result.nextToken # "" THEN "walk" ELSE "allSet", did)
         EXCEPT !.slots[q].stocks = slot.stocks \o result.items,
                !.slots[q].times =
                  slot.times \o [i \in DOMAIN result.items |-> PricedNow],
                !.slots[q].nextToken = result.nextToken]

WalkPage(q) ==
  /\ quotes.slots[q].pc = "walk"
  /\ quotes' = WalkPageStep(q)
  /\ UNCHANGED << tradeVars, tol, vendor, pageVars, clock, bookVars >>

\* await this.cacheManager.set('stocks:all', stocks, this.cacheTTL * 1000)
AllSet(q) ==
  /\ quotes.slots[q].pc = "allSet"
  /\ stocks' = [stocks EXCEPT
                  !.all = [at |-> clock, items |-> quotes.slots[q].stocks]]
  /\ quotes' = [Goes(q, "dbUpdate", Did("cache.set.all", TRUE, 0)) EXCEPT
                  !.priced.all = quotes.slots[q].times]
  /\ UNCHANGED << tradeVars, tol, vendor, pager, reqs, clock, bookVars >>

\* await this.updateStocksInDatabase(stocks): each item saved with
\* lastFetchedAt = now; a save that fails leaves the earlier ones saved
DbUpdate(q) ==
  LET items == quotes.slots[q].stocks
      times == quotes.slots[q].times
  IN  /\ quotes.slots[q].pc = "dbUpdate"
      /\ \/ /\ stocks' = [stocks EXCEPT
                            !.store = WriteItems(@, items),
                            !.fetchedAt = StampItems(@, items, clock)]
            /\ quotes' = [FoundIn(q, items, times,
                                  Did("stockRepository.save", TRUE,
                                      Len(items)))
                            EXCEPT !.priced.store =
                                     StampTimes(@, items, times, Len(items))]
            /\ NoFault
         \/ \E n \in 0..(Len(items) - 1) :
              /\ Fault
              /\ stocks' = [stocks EXCEPT
                    !.store = WriteItems(@, SubSeq(items, 1, n)),
                    !.fetchedAt = StampItems(@, SubSeq(items, 1, n), clock)]
              /\ quotes' = [Ends(q, Did("stockRepository.save", FALSE, n),
                                 "thrown", 0, Err("connection lost"))
                            EXCEPT !.priced.store =
                                     StampTimes(@, items, times, n)]
      /\ UNCHANGED << tradeTables, maxActive, tol, vendor, pager, reqs,
                      clock, bookVars >>

\* await this.cacheManager.set(cacheKey, foundStock, this.cacheTTL * 1000);
\* return foundStock
CacheSetFound(q) ==
  LET symbol == quotes.slots[q].symbol
      foundStock == quotes.slots[q].dto
  IN  /\ quotes.slots[q].pc = "cacheSetFound"
      /\ stocks' = [stocks EXCEPT !.cache[symbol] = foundStock,
                                  !.cachedAt[symbol] = clock]
      /\ quotes' = [Aged(Ends(q, Did("cache.set", TRUE, foundStock),
                                "returned", foundStock, NoError),
                           q, quotes.slots[q].pricedAt)
                      EXCEPT !.priced.cache[symbol] = quotes.slots[q].pricedAt]
      /\ UNCHANGED << tradeVars, tol, vendor, pager, reqs, clock, bookVars >>

\* the await the lookup is at rejects (the cache, the database or, after
\* its retries, the vendor client): getStockBySymbol has no try block
LookupThrows(q) ==
  /\ quotes.slots[q].pc \in {"cacheGet", "storeFind", "allGet", "walk"}
  /\ Fault
  /\ quotes' = Ends(q, Did(quotes.slots[q].pc, FALSE, 0), "thrown", 0,
                    Err("connection lost"))
  /\ UNCHANGED << tradeTables, maxActive, tol, vendor, pageVars, clock, bookVars >>

\* time passes
Tick ==
  /\ clock < MaxClock
  /\ clock' = clock + 1
  /\ UNCHANGED << tradeVars, tol, vendor, pageVars, quotes, bookVars >>

NextQuotes ==
  \/ \E q \in 1..MaxLookups :
       \/ LookupCall(q)
       \/ CacheGet(q)
       \/ StoreFind(q)
       \/ CacheSetStored(q)
       \/ AllGet(q)
       \/ WalkPage(q)
       \/ AllSet(q)
       \/ DbUpdate(q)
       \/ CacheSetFound(q)
       \/ LookupThrows(q)
  \/ Tick

SpecQuotes == InitQuotes /\ [][NextQuotes]_vars

SpecAges == InitAges /\ [][NextQuotes]_vars

(***************************************************************************)
(* PortfolioService.updatePortfolio(userId, symbol, quantity) over the     *)
(* portfolios table, whose rows have a generated id and a unique key on    *)
(* (userId, symbol)                                                        *)
(***************************************************************************)
FolioUsers == {"u1"}

FolioSymbols == {"AAPL", "MSFT"}

\* the quantities to add (positive) or remove (negative)
Deltas == {-2, -1, 1, 2}

\* this many awaits of the updatePortfolio invocations reject
MaxFolioFaults == 1

NoHolding == [id |-> 0, quantity |-> 0]

\* findOne({ where: { userId, symbol } }): the row's id and quantity, null
\* (NoHolding) when there is none
findHolding(rows, userId, symbol) ==
  LET found == {r \in rows : r.userId = userId /\ r.symbol = symbol}
  IN  IF found = {} THEN NoHolding
      ELSE LET r == CHOOSE r \in found : \A o \in found : r.id <= o.id
           IN  [id |-> r.id, quantity |-> r.quantity]

updatePortfolioStepOverwrites(existingHolding, quantity) ==
  IF existingHolding # NoHolding
  THEN IF quantity <= 0
       THEN [op |-> "remove", quantity |-> quantity]
       ELSE [op |-> "save", quantity |-> quantity]
  ELSE IF quantity > 0
       THEN [op |-> "create", quantity |-> quantity]
       ELSE [op |-> "none", quantity |-> 0]

updatePortfolioStepKeepsZero(existingHolding, quantity) ==
  IF existingHolding # NoHolding
  THEN IF existingHolding.quantity + quantity < 0
       THEN [op |-> "remove", quantity |-> existingHolding.quantity + quantity]
       ELSE [op |-> "save", quantity |-> existingHolding.quantity + quantity]
  ELSE IF quantity > 0
       THEN [op |-> "create", quantity |-> quantity]
       ELSE [op |-> "none", quantity |-> 0]

\* what updatePortfolio does with the holding it found: the repository call
\* it awaits next and the quantity of the entity it passes
updatePortfolioStep(existingHolding, quantity) ==
  IF existingHolding # NoHolding
  THEN IF existingHolding.quantity + quantity <= 0
       THEN [op |-> "remove", quantity |-> existingHolding.quantity + quantity]
       ELSE [op |-> "save", quantity |-> existingHolding.quantity + quantity]
  ELSE IF quantity > 0
       THEN [op |-> "create", quantity |-> quantity]
       ELSE [op |-> "none", quantity |-> 0]

\* another row holds the pair: the unique key rejects the row
UniqueKeyTaken(rows, row) ==
  \E r \in rows :
    r.id # row.id /\ r.userId = row.userId /\ r.symbol = row.symbol

repositoryWriteKeeps(rows, nextId, step, existingHolding, userId, symbol) ==
  LET id == IF step.op = "create" THEN nextId ELSE existingHolding.id
      row == [id |-> id, userId |-> userId, symbol |-> symbol,
              quantity |-> step.quantity]
      others == {r \in rows : r.id # id}
  IN  IF step.op = "remove" THEN [ok |-> TRUE, rows |-> rows]
      ELSE IF UniqueKeyTaken(rows, row) THEN [ok |-> FALSE, rows |-> rows]
      ELSE [ok |-> TRUE, rows |-> others \cup {row}]

\* the table after the repository call (remove deletes by id; save updates
\* the row of the entity's id, or inserts it when that row is gone; a new
\* entity is inserted with the next id) and whether the call succeeded
repositoryWrite(rows, nextId, step, existingHolding, userId, symbol) ==
  LET id == IF step.op = "create" THEN nextId ELSE existingHolding.id
      row == [id |-> id, userId |-> userId, symbol |-> symbol,
              quantity |-> step.quantity]
      others == {r \in rows : r.id # id}
  IN  IF step.op = "remove" THEN [ok |-> TRUE, rows |-> others]
      ELSE IF UniqueKeyTaken(rows, row) THEN [ok |-> FALSE, rows |-> rows]
      ELSE [ok |-> TRUE, rows |-> others \cup {row}]

\* updatePortfolio invocations run one after the other
InitFolio ==
  /\ InitTables
  /\ tol = NoCheck
  /\ vendor = IdleVendor
  /\ faultsLeft = MaxFolioFaults
  /\ maxActive = 1
  /\ InitPagesIdle

\* updatePortfolio invocations overlap
InitFolioOverlap ==
  /\ InitTables
  /\ tol = NoCheck
  /\ vendor = IdleVendor
  /\ faultsLeft = MaxFolioFaults
  /\ maxActive = MaxActive
  /\ InitPagesIdle

Updating(u) == folio.slots[u].pc \notin {"idle", "done"}

\* the invocation on slot u ends: it returns or throws; the table is rows
\* from here on
Updated(u, rows, nextId, kind, err) ==
  [folio EXCEPT
     !.rows = rows,
     !.nextId = nextId,
     !.slots[u].pc = "done",
     !.slots[u].result = [kind |-> kind, value |-> err],
     !.returned =
        IF kind = "returned"
        THEN Append(@, [userId |-> folio.slots[u].userId,
                        symbol |-> folio.slots[u].symbol,
                        quantity |-> folio.slots[u].quantity])
        ELSE @]

\* the variables updatePortfolio leaves alone
folioFrame ==
  << tradeTables, maxActive, tol, vendor, pageVars, clock, quotes, walk,
     report, queue, webVars >>

\* the k-th updatePortfolio(userId, symbol, quantity) is invoked, on slot k
UpdateCall(u) ==
  /\ u = folio.made + 1
  /\ u <= MaxUpdates
  /\ Cardinality({v \in DOMAIN folio.slots : Updating(v)}) < maxActive
  /\ \E userId \in FolioUsers, symbol \in FolioSymbols, quantity \in Deltas :
       folio' = [folio EXCEPT
                   !.made = u,
                   !.slots[u] = [IdleUpdate EXCEPT
                                   !.pc = "find", !.userId = userId,
                                   !.symbol = symbol,
                                   !.quantity = quantity]]
  /\ UNCHANGED << folioFrame, faultsLeft >>

\* const existingHolding = await this.portfolioRepository.findOne(...); with
\* no holding and quantity <= 0 nothing more is done
FolioFind(u) ==
  LET slot == folio.slots[u]
      existingHolding == findHolding(folio.rows, slot.userId, slot.symbol)
  IN  /\ slot.pc = "find"
      /\ IF updatePortfolioStep(existingHolding, slot.quantity).op = "none"
         THEN folio' = Updated(u, folio.rows, folio.nextId, "returned",
                               NoError)
         ELSE folio' = [folio EXCEPT !.slots[u].pc = "write",
                                     !.slots[u].existing = existingHolding]
      /\ UNCHANGED << folioFrame, faultsLeft >>

\* await this.portfolioRepository.remove(existingHolding), or
\* await this.portfolioRepository.save(existingHolding), or
\* await this.portfolioRepository.save(newHolding)
FolioWrite(u) ==
  LET slot == folio.slots[u]
      step == updatePortfolioStep(slot.existing, slot.quantity)
      wrote == repositoryWrite(folio.rows, folio.nextId, step, slot.existing,
                               slot.userId, slot.symbol)
      nextId == IF step.op = "create" THEN folio.nextId + 1 ELSE folio.nextId
  IN  /\ slot.pc = "write"
      /\ IF wrote.ok
         THEN folio' = Updated(u, wrote.rows, nextId, "returned", NoError)
         ELSE folio' = Updated(u, folio.rows, nextId, "thrown",
                               UniqueViolation)
      /\ UNCHANGED << folioFrame, faultsLeft >>

\* the await the invocation is at rejects: updatePortfolio has no try block
FolioThrows(u) ==
  /\ Updating(u)
  /\ Fault
  /\ folio' = Updated(u, folio.rows, folio.nextId, "thrown",
                      Err("connection lost"))
  /\ UNCHANGED folioFrame

NextFolio ==
  \E u \in 1..MaxUpdates :
    \/ UpdateCall(u)
    \/ FolioFind(u)
    \/ FolioWrite(u)
    \/ FolioThrows(u)

SpecFolio == InitFolio /\ [][NextFolio]_vars

SpecFolioOverlap == InitFolioOverlap /\ [][NextFolio]_vars

(***************************************************************************)
(* PortfolioService.getUserPortfolio(userId, nextToken): a client walks    *)
(* the pages of a user's holdings, first without a token and then with     *)
(* each nextToken it was given                                             *)
(***************************************************************************)
\* private readonly pageSize = 10
pageSize == 10

\* the user holds up to this many symbols
MaxHoldings == 25

\* this many awaits of the walk reject
MaxWalkFaults == 1

\* symbols are numbered in the order the database sorts them; row i of the
\* user holds symbol (i * stride) % SymbolSpace, so the rows were not
\* inserted in symbol order
SymbolSpace == 31

Strides == {1, 7}

\* the rows of another user in the same table
OtherRows ==
  {[userId |-> "u2", symbol |-> 5, quantity |-> 1],
   [userId |-> "u2", symbol |-> 15, quantity |-> 2]}

RowsOfUser(n, stride) ==
  {[userId |-> "u1", symbol |-> (i * stride) % SymbolSpace, quantity |-> i] :
     i \in 1..n}

\* the bytes of the decimal digits of n
RECURSIVE Digits(_)
Digits(n) ==
  IF n < 10 THEN << 48 + n >> ELSE Digits(n \div 10) \o << 48 + (n % 10) >>

\* the bytes of {"offset":
OffsetPrefix == << 123, 34, 111, 102, 102, 115, 101, 116, 34, 58 >>

\* JSON.stringify({ offset }), as bytes
StringifyCursor(offset) == OffsetPrefix \o Digits(offset) \o << 125 >>

\* Buffer.from(text).toString('base64')
RECURSIVE Base64(_)
Base64(bytes) ==
  IF bytes = << >> THEN << >>
  ELSE IF Len(bytes) = 1
       THEN << bytes[1] \div 4, (bytes[1] % 4) * 16, 64, 64 >>
  ELSE IF Len(bytes) = 2
       THEN << bytes[1] \div 4, (bytes[1] % 4) * 16 + bytes[2] \div 16,
               (bytes[2] % 16) * 4, 64 >>
  ELSE << bytes[1] \div 4, (bytes[1] % 4) * 16 + bytes[2] \div 16,
          (bytes[2] % 16) * 4 + bytes[3] \div 64, bytes[3] % 64 >>
         \o Base64(SubSeq(bytes, 4, Len(bytes)))

\* Buffer.from(token, 'base64'): the bytes of the characters before the
\* padding
RECURSIVE FromBase64(_)
FromBase64(chars) ==
  LET n == Len(SelectSeq(SubSeq(chars, 1, IF Len(chars) < 4 THEN Len(chars)
                                          ELSE 4),
                         LAMBDA c : c # 64))
      b1 == chars[1] * 4 + chars[2] \div 16
      b2 == (chars[2] % 16) * 16 + chars[3] \div 4
      b3 == (chars[3] % 4) * 64 + chars[4]
  IN  IF n < 2 THEN << >>
      ELSE IF n = 2 THEN << b1 >>
      ELSE IF n = 3 THEN << b1, b2 >>
      ELSE << b1, b2, b3 >> \o FromBase64(SubSeq(chars, 5, Len(chars)))

RECURSIVE NumberOf(_)
NumberOf(digits) ==
  IF digits = << >> THEN 0
  ELSE 10 * NumberOf(SubSeq(digits, 1, Len(digits) - 1))
         + (digits[Len(digits)] - 48)

\* (JSON.parse(text) as PortfolioCursor).offset for a text of the form
\* {"offset":digits}; any other text is taken as one JSON.parse rejects
ParseCursor(bytes) ==
  LET k == Len(OffsetPrefix)
      digits == SubSeq(bytes, k + 1, Len(bytes) - 1)
  IN  IF /\ Len(bytes) >= k + 2
         /\ SubSeq(bytes, 1, k) = OffsetPrefix
         /\ bytes[Len(bytes)] = 125
         /\ \A i \in DOMAIN digits : digits[i] \in 48..57
      THEN [ok |-> TRUE, offset |-> NumberOf(digits)]
      ELSE [ok |-> FALSE, offset |-> 0]

\* the ascending sequence of a set of numbers
RECURSIVE Ascending(_)
Ascending(set) ==
  IF set = {} THEN << >>
  ELSE LET least == CHOOSE x \in set : \A y \in set : x <= y
       IN  << least >> \o Ascending(set \ {least})

\* findAndCount({ where: { userId }, order: { symbol: 'ASC' }, skip, take })
findAndCount(rows, userId, skip, take) ==
  LET mine == {r \in rows : r.userId = userId}
      order == Ascending({r.symbol : r \in mine})
      sorted == [i \in DOMAIN order |->
                   CHOOSE r \in mine : r.symbol = order[i]]
      last == IF skip + take < Len(sorted) THEN skip + take ELSE Len(sorted)
  IN  SubSeq(sorted, skip + 1, last)

\* convertToPortfolioItems(userId, items)
convertToPortfolioItems(userId, items) ==
  [i \in DOMAIN items |->
     [userId |-> userId, symbol |-> items[i].symbol,
      quantity |-> items[i].quantity]]

getUserPortfolioPageSkipsOne(portfolioItems, userId, offset) ==
  LET hasNextPage == Len(portfolioItems) > pageSize
      items == IF hasNextPage THEN SubSeq(portfolioItems, 1, pageSize)
               ELSE portfolioItems
  IN  [items |-> convertToPortfolioItems(userId, items),
       nextToken |-> IF hasNextPage
                     THEN Base64(StringifyCursor(offset + pageSize + 1))
                     ELSE << >>]

\* the response getUserPortfolio builds from the rows it was given
getUserPortfolioPage(portfolioItems, userId, offset) ==
  LET hasNextPage == Len(portfolioItems) > pageSize
      items == IF hasNextPage THEN SubSeq(portfolioItems, 1, pageSize)
               ELSE portfolioItems
  IN  [items |-> convertToPortfolioItems(userId, items),
       nextToken |-> IF hasNextPage
                     THEN Base64(StringifyCursor(offset + pageSize))
                     ELSE << >>]

PortfolioNotFound(userId) ==
  [type |-> "NotFoundException",
   message |-> "Portfolio not found for user " \o userId]

InvalidToken ==
  [type |-> "BadRequestException", message |-> "Invalid pagination token"]

InitWalk ==
  /\ InitTables
  /\ tol = NoCheck
  /\ vendor = IdleVendor
  /\ faultsLeft = MaxWalkFaults
  /\ maxActive = 1
  /\ pager = [catalog |-> 1, tokens |-> NoTokens, asked |-> 0]
  /\ reqs = [r \in Requests |-> IdleReq]
  /\ stocks = NoStocks
  /\ clock = 0
  /\ quotes = [asked |-> 0, slots |-> [q \in 1..MaxLookups |-> IdleLookup]]
  /\ folio = IdleFolio
  /\ queue = IdleQueue
  /\ feed = IdleFeed
  /\ shelf = IdleShelf
  /\ report = IdleReport
  /\ \E n \in 0..MaxHoldings, stride \in Strides, others \in SUBSET OtherRows :
       walk = [IdleWalk EXCEPT !.pc = "ready", !.userId = "u1",
                               !.rows = RowsOfUser(n, stride) \cup others]

\* the variables getUserPortfolio leaves alone
walkFrame ==
  << tradeTables, maxActive, tol, vendor, pageVars, clock, quotes, folio,
     report, queue, webVars >>

\* getUserPortfolio(userId, nextToken) is invoked with the token the last
\* page gave, and decodes it
WalkCall ==
  LET cursor == ParseCursor(FromBase64(walk.nextToken))
  IN  /\ walk.pc = "ready"
      /\ IF walk.nextToken = << >>
         THEN walk' = [walk EXCEPT !.pc = "query", !.offset = 0]
         ELSE IF cursor.ok
              THEN walk' = [walk EXCEPT !.pc = "query",
                                        !.offset = cursor.offset]
              ELSE walk' = [walk EXCEPT
                              !.pc = "done",
                              !.result = [kind |-> "thrown",
                                          value |-> InvalidToken]]
      /\ UNCHANGED << walkFrame, faultsLeft >>

\* await this.portfolioRepository.findAndCount(...), then the response, or
\* NotFoundException when no row came back
WalkQuery ==
  LET portfolioItems ==
        findAndCount(walk.rows, walk.userId, walk.offset, pageSize + 1)
      response == getUserPortfolioPage(portfolioItems, walk.userId,
                                       walk.offset)
  IN  /\ walk.pc = "query"
      /\ IF portfolioItems = << >>
         THEN walk' = [walk EXCEPT
                         !.pc = "done",
                         !.result = [kind |-> "thrown",
                                     value |-> PortfolioNotFound(walk.userId)]]
         ELSE walk' = [walk EXCEPT
                         !.pc = IF response.nextToken = << >> THEN "done"
                                ELSE "ready",
                         !.nextToken = response.nextToken,
                         !.pages = Append(@, response),
                         !.result = IF response.nextToken = << >>
                                    THEN [kind |-> "returned",
                                          value |-> NoError]
                                    ELSE @]
      /\ UNCHANGED << walkFrame, faultsLeft >>

\* the query rejects
WalkThrows ==
  /\ walk.pc = "query"
  /\ Fault
  /\ walk' = [walk EXCEPT
                !.pc = "done",
                !.result = [kind |-> "thrown",
                            value |-> Err("connection lost")]]
  /\ UNCHANGED walkFrame

NextWalk == WalkCall \/ WalkQuery \/ WalkThrows

SpecWalk == InitWalk /\ [][NextWalk]_vars

(***************************************************************************)
(* ReportService.generateDailyReport(date)                                 *)
(***************************************************************************)
DayMs == 86400000

\* the day a time falls on
DayOf(timestamp) == timestamp \div DayMs

\* Date.now(): noon of day 2
NowMs == 2 * DayMs + 43200000

\* the date argument: none (NoTime), the last millisecond of day 1, or the
\* first of day 2
DateArgs == {NoTime, 2 * DayMs - 1, 2 * DayMs}

\* the trades table holds up to this many rows
MaxReportTrades == 2

\* this many awaits of the report reject
MaxReportFaults == 1

TradeTimes == {DayMs - 1, DayMs, DayMs + 43200000, 2 * DayMs - 1, 2 * DayMs}

TradeKinds ==
  {[status |-> SUCCESS, reason |-> ""],
   [status |-> FAILED, reason |-> "Price out of range"],
   [status |-> FAILED, reason |-> ""],
   [status |-> PENDING, reason |-> ""]}

TradeRows ==
  {[timestamp |-> t, status |-> k.status, reason |-> k.reason] :
     t \in TradeTimes, k \in TradeKinds}

TradeTables ==
  UNION {[1..n -> TradeRows] : n \in 0..MaxReportTrades}

\* new Date(reportDate) with setHours(0, 0, 0, 0)
StartOfDay(date) == date - (date % DayMs)

\* new Date(reportDate) with setHours(23, 59, 59, 999)
EndOfDay(date) == StartOfDay(date) + DayMs - 1

\* Between(startDate, endDate)
Between(timestamp, startDate, endDate) ==
  startDate <= timestamp /\ timestamp <= endDate

\* the rows in positions `at` of the table, latest timestamp first
RECURSIVE LatestFirst(_, _)
LatestFirst(table, at) ==
  IF at = {} THEN << >>
  ELSE LET i == CHOOSE i \in at :
                  \A j \in at :
                    \/ table[i].timestamp > table[j].timestamp
                    \/ table[i].timestamp = table[j].timestamp /\ i <= j
       IN  << table[i] >> \o LatestFirst(table, at \ {i})

tradeRepositoryFindOpenEnd(table, startDate, endDate) ==
  LatestFirst(table,
              {i \in DOMAIN table :
                 Between(table[i].timestamp, startDate, endDate + 1)})

\* this.tradeRepository.find({ where: { timestamp: Between(startDate,
\* endDate) }, order: { timestamp: 'DESC' } })
tradeRepositoryFind(table, startDate, endDate) ==
  LatestFirst(table,
              {i \in DOMAIN table :
                 Between(table[i].timestamp, startDate, endDate)})

\* aggregateFailureReasons(failedTrades): one entry per reason, in the
\* order of first appearance, with its count
RECURSIVE aggregateFailureReasons(_)
aggregateFailureReasons(failedTrades) ==
  IF failedTrades = << >> THEN << >>
  ELSE LET n == Len(failedTrades)
           before == aggregateFailureReasons(SubSeq(failedTrades, 1, n - 1))
           reason == IF failedTrades[n].reason = "" THEN "Unknown reason"
                     ELSE failedTrades[n].reason
       IN  IF \E k \in DOMAIN before : before[k].reason = reason
           THEN [k \in DOMAIN before |->
                   IF before[k].reason = reason
                   THEN [before[k] EXCEPT !.count = @ + 1]
                   ELSE before[k]]
           ELSE Append(before, [reason |-> reason, count |-> 1])

reportContextAllReasons(found) ==
  LET successfulTrades == SelectSeq(found, LAMBDA t : t.status = SUCCESS)
      failedTrades == SelectSeq(found, LAMBDA t : t.status = FAILED)
  IN  [totalTrades |-> Len(found),
       successCount |-> Len(successfulTrades),
       failedCount |-> Len(failedTrades),
       failureReasons |-> aggregateFailureReasons(found)]

\* the counts of the report context
reportContext(found) ==
  LET successfulTrades == SelectSeq(found, LAMBDA t : t.status = SUCCESS)
      failedTrades == SelectSeq(found, LAMBDA t : t.status = FAILED)
  IN  [totalTrades |-> Len(found),
       successCount |-> Len(successfulTrades),
       failedCount |-> Len(failedTrades),
       failureReasons |-> aggregateFailureReasons(failedTrades)]

InitReport ==
  /\ InitTables
  /\ tol = NoCheck
  /\ vendor = IdleVendor
  /\ faultsLeft = MaxReportFaults
  /\ maxActive = 1
  /\ pager = [catalog |-> 1, tokens |-> NoTokens, asked |-> 0]
  /\ reqs = [r \in Requests |-> IdleReq]
  /\ stocks = NoStocks
  /\ clock = 0
  /\ quotes = [asked |-> 0, slots |-> [q \in 1..MaxLookups |-> IdleLookup]]
  /\ folio = IdleFolio
  /\ queue = IdleQueue
  /\ feed = IdleFeed
  /\ shelf = IdleShelf
  /\ walk = IdleWalk
  /\ \E table \in TradeTables, recipients \in {0, 1} :
       report = [IdleReport EXCEPT !.table = table,
                                   !.recipients = recipients]

\* the variables generateDailyReport leaves alone
reportFrame ==
  << tradeTables, maxActive, tol, vendor, pageVars, clock, quotes, folio,
     walk, queue, webVars >>

\* generateDailyReport returns
Reported(result) == [report EXCEPT !.pc = "done", !.result = result]

\* generateDailyReport(date) is invoked: const reportDate =
\* date || new Date(Date.now() - 24 * 60 * 60 * 1000)
ReportCall ==
  /\ report.pc = "idle"
  /\ \E date \in DateArgs :
       report' = [report EXCEPT
                    !.pc = "find",
                    !.reportDate = IF date = NoTime THEN NowMs - DayMs
                                   ELSE date]
  /\ UNCHANGED << reportFrame, faultsLeft >>

\* const trades = await this.tradeRepository.find(...); true when there is
\* none; a rejection is caught and false is returned
ReportFind ==
  LET found == tradeRepositoryFind(report.table,
                                   StartOfDay(report.reportDate),
                                   EndOfDay(report.reportDate))
  IN  /\ report.pc = "find"
      /\ \/ /\ NoFault
            /\ IF Len(found) = 0
               THEN report' = Reported("true")
               ELSE report' = [report EXCEPT
                                 !.pc = "render", !.trades = found,
                                 !.context = reportContext(found)]
         \/ /\ Fault
            /\ report' = Reported("false")
      /\ UNCHANGED reportFrame

\* const htmlContent = await this.emailService.renderTemplate(...), then
\* false when getDefaultRecipients() is empty
ReportRender ==
  /\ report.pc = "render"
  /\ \/ /\ NoFault
        /\ IF report.recipients = 0
           THEN report' = [Reported("false") EXCEPT !.rendered = @ + 1]
           ELSE report' = [report EXCEPT !.pc = "send", !.rendered = @ + 1]
     \/ /\ Fault
        /\ report' = [Reported("false") EXCEPT !.rendered = @ + 1]
  /\ UNCHANGED reportFrame

\* const sent = await this.emailService.sendEmail(...), which answers false
\* when the provider fails; sent is returned
ReportSend ==
  /\ report.pc = "send"
  /\ \E sent \in {"true", "false"} :
       report' = [Reported(sent) EXCEPT !.sent = @ + 1]
  /\ UNCHANGED << reportFrame, faultsLeft >>

NextReport == ReportCall \/ ReportFind \/ ReportRender \/ ReportSend

SpecReport == InitReport /\ [][NextReport]_vars

\* generateDailyReport over days of up to MaxDigestTrades trades
MaxDigestTrades == 5

DigestTimes == {DayMs + 43200000, 2 * DayMs}

DigestKinds ==
  {[status |-> SUCCESS, reason |-> ""],
   [status |-> FAILED, reason |-> "A"],
   [status |-> FAILED, reason |-> "B"],
   [status |-> FAILED, reason |-> ""]}

DigestRows ==
  {[timestamp |-> t, status |-> k.status, reason |-> k.reason] :
     t \in DigestTimes, k \in DigestKinds}

DigestTables ==
  UNION {[1..n -> DigestRows] : n \in 0..MaxDigestTrades}

InitDigest ==
  /\ InitTables
  /\ tol = NoCheck
  /\ vendor = IdleVendor
  /\ faultsLeft = MaxReportFaults
  /\ maxActive = 1
  /\ pager = [catalog |-> 1, tokens |-> NoTokens, asked |-> 0]
  /\ reqs = [r \in Requests |-> IdleReq]
  /\ stocks = NoStocks
  /\ clock = 0
  /\ quotes = [asked |-> 0, slots |-> [q \in 1..MaxLookups |-> IdleLookup]]
  /\ folio = IdleFolio
  /\ queue = IdleQueue
  /\ feed = IdleFeed
  /\ shelf = IdleShelf
  /\ walk = IdleWalk
  /\ \E table \in DigestTables :
       report = [IdleReport EXCEPT !.table = table, !.recipients = 1]

SpecDigest == InitDigest /\ [][NextReport]_vars

(***************************************************************************)
(* The reports queue: ReportScheduler, ReportsController.generateReport    *)
(* and ReportProcessor.handleDailyReport                                   *)
(***************************************************************************)
\* attempts: 3
jobAttempts == 3

\* backoff: { type: 'exponential', delay: 60000 }
backoffDelay == 60000

\* the trades table of a queue run holds up to this many rows
MaxJobTrades == 1

\* this many awaits of a queue run reject
MaxQueueFaults == 1

\* a Date holds at most this many days before or after the epoch
MaxDateDay == 100000000

\* the days query parameter of POST /reports/generate
Days == {1, 2, 200000000}

JobTables == UNION {[1..n -> TradeRows] : n \in 0..MaxJobTrades}

\* 2 ^ n
RECURSIVE Pow2(_)
Pow2(n) == IF n = 0 THEN 1 ELSE 2 * Pow2(n - 1)

\* the delay of the queue's exponential backoff after attemptsMade failed
\* attempts: (2 ^ attemptsMade - 1) * delay
exponentialBackoff(attemptsMade) == (Pow2(attemptsMade) - 1) * backoffDelay

\* the job reportsQueue.add('generateDailyReport', { date }, options) puts
\* in the queue
AddedJob(origin, date) ==
  [NoJob EXCEPT !.state = "waiting", !.origin = origin, !.date = date]

\* the call of reportsQueue.add and whether it resolved
Added(origin, ok) == Append(queue.adds, [origin |-> origin, ok |-> ok])

InitJobs ==
  /\ InitTables
  /\ tol = NoCheck
  /\ vendor = IdleVendor
  /\ faultsLeft = MaxQueueFaults
  /\ maxActive = 1
  /\ pager = [catalog |-> 1, tokens |-> NoTokens, asked |-> 0]
  /\ reqs = [r \in Requests |-> IdleReq]
  /\ stocks = NoStocks
  /\ clock = 0
  /\ quotes = [asked |-> 0, slots |-> [q \in 1..MaxLookups |-> IdleLookup]]
  /\ folio = IdleFolio
  /\ walk = IdleWalk
  /\ queue = IdleQueue
  /\ feed = IdleFeed
  /\ shelf = IdleShelf
  /\ \E table \in JobTables, recipients \in {0, 1} :
       report = [IdleReport EXCEPT !.table = table,
                                   !.recipients = recipients]

\* the variables the producers of the queue leave alone
queueFrame ==
  << tradeTables, maxActive, tol, vendor, pageVars, clock, quotes, folio,
     walk, report, webVars >>

\* the cron trigger: scheduleDailyReport() adds a job for yesterday; a
\* rejection of reportsQueue.add is caught and logged
ScheduleDailyReport ==
  /\ queue.adds = << >>
  /\ queue.answer = NoReply
  /\ \/ /\ NoFault
        /\ queue' = [queue EXCEPT !.job = AddedJob("cron", NowMs - DayMs),
                                  !.adds = Added("cron", TRUE)]
     \/ /\ Fault
        /\ queue' = [queue EXCEPT !.adds = Added("cron", FALSE)]
  /\ UNCHANGED queueFrame

\* the answer of generateReport: triggerDailyReport(targetDate) throws only
\* from targetDate.toISOString() of an invalid date, ahead of its try block;
\* a rejection of reportsQueue.add is caught inside triggerDailyReport
generateReport(valid, added) ==
  IF ~valid
  THEN [success |-> FALSE,
        message |-> "Failed to trigger report generation: Invalid time value"]
  ELSE [success |-> TRUE, message |-> "Report generation has been triggered"]

\* POST /reports/generate?days=N: targetDate is now less N days, then
\* triggerDailyReport(targetDate) adds a job for it
GenerateReport ==
  /\ queue.adds = << >>
  /\ queue.answer = NoReply
  /\ \E days \in Days :
       LET valid == days - DayOf(NowMs) <= MaxDateDay
       IN  IF ~valid
           THEN /\ queue' = [queue EXCEPT
                               !.answer = generateReport(FALSE, FALSE)]
                /\ UNCHANGED faultsLeft
           ELSE \/ /\ NoFault
                   /\ queue' = [queue EXCEPT
                                  !.job = AddedJob("manual",
                                                   NowMs - days * DayMs),
                                  !.adds = Added("manual", TRUE),
                                  !.answer = generateReport(TRUE, TRUE)]
                \/ /\ Fault
                   /\ queue' = [queue EXCEPT
                                  !.adds = Added("manual", FALSE),
                                  !.answer = generateReport(TRUE, FALSE)]
  /\ UNCHANGED queueFrame

\* a worker takes the waiting job, or the delayed job once its delay has
\* passed, and handleDailyReport(job) calls generateDailyReport(job.data.date)
ProcessJob ==
  /\ queue.job.state \in {"waiting", "delayed"}
  /\ queue' = [queue EXCEPT !.job.state = "active",
                            !.job.faultsBefore = faultsLeft]
  /\ report' = [IdleReport EXCEPT !.table = report.table,
                                  !.recipients = report.recipients,
                                  !.pc = "find",
                                  !.reportDate = queue.job.date]
  /\ UNCHANGED << tradeTables, maxActive, tol, vendor, pageVars, clock,
                  quotes, folio, walk, faultsLeft, webVars >>

handleDailyReportReturnsAlways(success) == "returned"

\* handleDailyReport after generateDailyReport answered: it returns success
\* when that is true and throws 'Failed to generate or send daily report'
\* otherwise
handleDailyReport(success) == IF success = "true" THEN "returned" ELSE "thrown"

\* what the queue does with the job when the processor is done: a job that
\* returned is removed (removeOnComplete: true); one that threw is delayed
\* by the backoff while attemptsMade < attempts, and is kept among the
\* failed jobs after that (removeOnFail: false)
SettledJob(job, outcome, attempt) ==
  LET made == job.attemptsMade + 1
      tried == [job EXCEPT !.attemptsMade = made,
                           !.attempts = Append(@, attempt)]
  IN  IF outcome = "returned" THEN [tried EXCEPT !.state = "removed"]
      ELSE IF made < jobAttempts
      THEN [tried EXCEPT !.state = "delayed",
                         !.delays = Append(@, exponentialBackoff(made))]
      ELSE [tried EXCEPT !.state = "failed"]

\* generateDailyReport answered and handleDailyReport returns or throws
HandleDailyReport ==
  /\ queue.job.state = "active"
  /\ report.pc = "done"
  /\ LET outcome == handleDailyReport(report.result)
         attempt == [result |-> report.result,
                     rendered |-> report.rendered,
                     sent |-> report.sent,
                     raised |-> faultsLeft < queue.job.faultsBefore,
                     threw |-> outcome = "thrown"]
     IN  queue' = [queue EXCEPT !.job = SettledJob(@, outcome, attempt)]
  /\ UNCHANGED << queueFrame, faultsLeft >>

NextJobs ==
  \/ ScheduleDailyReport
  \/ GenerateReport
  \/ ProcessJob
  \/ ReportFind
  \/ ReportRender
  \/ ReportSend
  \/ HandleDailyReport

SpecJobs == InitJobs /\ [][NextJobs]_vars

(***************************************************************************)
(* GET /stocks?nextToken= in the cursor pass-through design:               *)
(* HttpCacheInterceptor, StocksController.getStocks,                       *)
(* StocksService.getStocks(nextToken) and the URL StocksHttpService sends. *)
(* A token is the sequence of its characters, << >> for no token           *)
(***************************************************************************)
\* private readonly defaultTTL = 300
defaultTTL == 300

\* this many GET /stocks requests are made, one after the other
MaxFeedRequests == 3

\* this many awaits of the requests reject
MaxFeedFaults == 1

\* the continuation token the vendor gives with page k; the tokens are
\* opaque strings, and the one of page 2 holds a '+'
FeedToken(k) == IF k = 2 THEN << "t", "+", "2" >> ELSE << "t", ToString(k) >>

\* the tokens clients send: none, or one the vendor gave
ClientTokens == {<< >>} \cup {FeedToken(k) : k \in 1..(MaxVendorPages - 1)}

\* the query string of `/stocks${nextToken ? `?nextToken=${nextToken}` : ''}`
stocksUrl(nextToken) ==
  IF nextToken = << >> THEN << >> ELSE << "nextToken", "=" >> \o nextToken

\* the nextToken parameter a server reads from a query string: the value
\* ends at '&' or '#', '+' stands for a space and %2B for '+'
RECURSIVE UpTo(_, _)
UpTo(chars, stops) ==
  IF chars = << >> \/ chars[1] \in stops THEN << >>
  ELSE << chars[1] >> \o UpTo(Tail(chars), stops)

QueryToken(query) ==
  LET pair == UpTo(query, {"&", "#"})
      value == SubSeq(pair, 3, Len(pair))
  IN  IF Len(pair) < 2 \/ pair[1] # "nextToken" \/ pair[2] # "=" THEN << >>
      ELSE [i \in DOMAIN value |->
              CASE value[i] = "+" -> " "
                [] value[i] = "%2B" -> "+"
                [] OTHER -> value[i]]

\* the vendor knows the token it received
KnownToken(token) ==
  token = << >> \/ \E k \in 1..(MaxVendorPages - 1) : FeedToken(k) = token

\* the page the vendor answers a known token with
feedVendorPage(token) ==
  LET k == IF token = << >> THEN 1
           ELSE 1 + CHOOSE j \in 1..(MaxVendorPages - 1) : FeedToken(j) = token
  IN  [items |-> VendorItems(k),
       nextToken |-> IF k < MaxVendorPages THEN FeedToken(k) ELSE << >>]

NoPage == [items |-> << >>, nextToken |-> << >>]

NoEntry == [at |-> NoTime, response |-> NoPage]

IdleFeedReq ==
  [pc |-> "idle", token |-> << >>, startedAt |-> NoTime, sent |-> << >>,
   page |-> NoPage, kind |-> "none", response |-> NoPage, served |-> "none",
   fetchedAt |-> NoTime]

InitFeed ==
  /\ InitTables
  /\ tol = NoCheck
  /\ vendor = IdleVendor
  /\ faultsLeft = MaxFeedFaults
  /\ maxActive = 1
  /\ pager = [catalog |-> MaxVendorPages, tokens |-> NoTokens, asked |-> 0]
  /\ reqs = [r \in Requests |-> IdleReq]
  /\ stocks = NoStocks
  /\ clock = 0
  /\ quotes = [asked |-> 0, slots |-> [q \in 1..MaxLookups |-> IdleLookup]]
  /\ folio = IdleFolio
  /\ walk = IdleWalk
  /\ report = IdleReport
  /\ queue = IdleQueue
  /\ shelf = IdleShelf
  /\ feed = [asked |-> 0,
             slots |-> [r \in 1..MaxFeedRequests |-> IdleFeedReq],
             cache |-> [t \in ClientTokens |-> NoEntry]]

\* the variables a GET /stocks request leaves alone
feedFrame ==
  << tradeTables, maxActive, tol, vendor, pager, reqs, clock, quotes, folio,
     walk, report, queue, shelf >>

\* the request in slot r fails with an exception
FeedThrows(r) ==
  [feed EXCEPT !.slots[r].pc = "done", !.slots[r].kind = "thrown"]

\* the k-th GET /stocks?nextToken=token arrives once the one before it was
\* answered
FeedCall ==
  /\ feed.asked < MaxFeedRequests
  /\ feed.asked > 0 => feed.slots[feed.asked].pc = "done"
  /\ \E token \in ClientTokens :
       feed' = [feed EXCEPT
                  !.asked = @ + 1,
                  !.slots[feed.asked + 1] =
                    [IdleFeedReq EXCEPT !.pc = "intercept", !.token = token,
                                        !.startedAt = clock]]
  /\ UNCHANGED << feedFrame, stocks, faultsLeft >>

\* HttpCacheInterceptor.intercept: the cached response of the key answers
\* the request when there is one
intercept(entry) ==
  /\ entry.at # NoTime
  /\ (clock - entry.at) * TickSeconds * 1000 < defaultTTL * 1000

\* const cachedResponse = await this.cacheManager.get(cacheKey)
FeedIntercept(r) ==
  LET req == feed.slots[r]
      entry == feed.cache[req.token]
  IN  /\ req.pc = "intercept"
      /\ \/ /\ NoFault
            /\ IF intercept(entry)
               THEN feed' = [feed EXCEPT
                               !.slots[r].pc = "done",
                               !.slots[r].kind = "returned",
                               !.slots[r].served = "cache",
                               !.slots[r].response = entry.response]
               ELSE feed' = [feed EXCEPT !.slots[r].pc = "fetch"]
         \/ /\ Fault
            /\ feed' = FeedThrows(r)
      /\ UNCHANGED << feedFrame, stocks >>

\* const result = await this.stocksHttpService.getStocks(nextToken): the
\* vendor reads the token from the URL; it rejects a token it does not know
\* and the call throws after its attempts
FeedFetch(r) ==
  LET req == feed.slots[r]
      received == QueryToken(stocksUrl(req.token))
      sent == Append(req.sent, received)
  IN  /\ req.pc = "fetch"
      /\ \/ /\ NoFault
            /\ IF KnownToken(received)
               THEN feed' = [feed EXCEPT
                               !.slots[r].pc = "write",
                               !.slots[r].sent = sent,
                               !.slots[r].fetchedAt = clock,
                               !.slots[r].page = feedVendorPage(received)]
               ELSE feed' = [FeedThrows(r) EXCEPT !.slots[r].sent = sent]
         \/ /\ Fault
            /\ feed' = [FeedThrows(r) EXCEPT !.slots[r].sent = sent]
      /\ UNCHANGED << feedFrame, stocks >>

\* await this.updateStocksInDatabase(stocks); await this.cacheStocks(stocks)
FeedWrite(r) ==
  LET req == feed.slots[r]
      saved == [stocks EXCEPT
                  !.store = WriteItems(@, req.page.items),
                  !.fetchedAt = StampItems(@, req.page.items, clock)]
  IN  /\ req.pc = "write"
      /\ \/ /\ NoFault
            /\ stocks' = [saved EXCEPT
                            !.cache = WriteItems(@, req.page.items),
                            !.cachedAt = StampItems(@, req.page.items, clock)]
            /\ feed' = [feed EXCEPT !.slots[r].pc = "respond"]
         \/ /\ Fault
            /\ stocks' \in {stocks, saved}
            /\ feed' = FeedThrows(r)
      /\ UNCHANGED feedFrame

\* return { items: stocks, nextToken: result.nextToken || null }
getStocksResponse(page) == [items |-> page.items, nextToken |-> page.nextToken]

\* the response is returned and the interceptor's tap stores it: void
\* this.cacheManager.set(cacheKey, response, ttl * 1000), whose rejection
\* nobody handles
FeedRespond(r) ==
  LET req == feed.slots[r]
      response == getStocksResponse(req.page)
      answered == [feed EXCEPT !.slots[r].pc = "done",
                               !.slots[r].kind = "returned",
                               !.slots[r].served = "vendor",
                               !.slots[r].response = response]
  IN  /\ req.pc = "respond"
      /\ \/ /\ NoFault
            /\ feed' = [answered EXCEPT
                          !.cache[req.token] =
                            [at |-> clock, response |-> response]]
         \/ /\ Fault
            /\ feed' = answered
      /\ UNCHANGED << feedFrame, stocks >>

NextFeed ==
  \/ FeedCall
  \/ \E r \in 1..MaxFeedRequests :
       \/ FeedIntercept(r)
       \/ FeedFetch(r)
       \/ FeedWrite(r)
       \/ FeedRespond(r)
  \/ Tick

SpecFeed == InitFeed /\ [][NextFeed]_vars

(***************************************************************************)
(* GET /portfolio/:userId with the cached PortfolioService: the response   *)
(* cache of HttpCacheInterceptor, the portfolio:{userId} entry of          *)
(* getUserPortfolio, and updatePortfolio, which deletes that entry.  One   *)
(* user and one symbol; a portfolio is the quantity held, 0 for none       *)
(***************************************************************************)
\* this.cacheManager.set(cacheKey, response, 15 * 60 * 1000)
portfolioTTL == 900

\* this many GET /portfolio/u1 requests are made
MaxReads == 2

\* this many updatePortfolio('u1', 'AAPL', quantity) calls are made
MaxShelfUpdates == 2

\* this many cache writes of the reads are lost
MaxShelfFaults == 1

\* the quantities of the purchases
Purchases == {1, 2}

NoSlot == [at |-> NoTime, value |-> 0]

IdleRead ==
  [pc |-> "idle", floor |-> 0, value |-> 0, kind |-> "none",
   served |-> "none"]

IdleShelfUpdate ==
  [pc |-> "idle", quantity |-> 0, existing |-> NoHolding, wrote |-> 0]

InitShelf ==
  /\ InitTables
  /\ tol = NoCheck
  /\ vendor = IdleVendor
  /\ faultsLeft = MaxShelfFaults
  /\ maxActive = 1
  /\ pager = [catalog |-> 1, tokens |-> NoTokens, asked |-> 0]
  /\ reqs = [r \in Requests |-> IdleReq]
  /\ stocks = NoStocks
  /\ clock = 0
  /\ quotes = [asked |-> 0, slots |-> [q \in 1..MaxLookups |-> IdleLookup]]
  /\ folio = IdleFolio
  /\ walk = IdleWalk
  /\ report = IdleReport
  /\ queue = IdleQueue
  /\ feed = IdleFeed
  /\ \E held \in {0, 1} :
       shelf = [asked |-> 0, held |-> held, settled |-> held,
                cache |-> NoSlot, page |-> NoSlot,
                reads |-> [r \in 1..MaxReads |-> IdleRead],
                made |-> 0,
                updates |-> [u \in 1..MaxShelfUpdates |-> IdleShelfUpdate]]

\* the variables the portfolio requests leave alone
shelfFrame ==
  << tradeTables, maxActive, tol, vendor, pageVars, clock, quotes, folio,
     walk, report, queue, feed >>

\* an entry set at time `at` with a TTL of ttl seconds is still there
EntryLive(entry, ttl) ==
  entry.at # NoTime /\ (clock - entry.at) * TickSeconds * 1000 < ttl * 1000

\* the k-th GET /portfolio/u1 arrives; the updates completed so far have
\* brought the holding to shelf.settled
ShelfRead ==
  /\ shelf.asked < MaxReads
  /\ shelf' = [shelf EXCEPT
                 !.asked = @ + 1,
                 !.reads[shelf.asked + 1] =
                   [IdleRead EXCEPT !.pc = "intercept",
                                    !.floor = shelf.settled]]
  /\ UNCHANGED << shelfFrame, faultsLeft >>

\* HttpCacheInterceptor.intercept: the cached response of the URL answers
\* the request when there is one
ShelfIntercept(r) ==
  /\ shelf.reads[r].pc = "intercept"
  /\ IF intercept(shelf.page)
     THEN shelf' = [shelf EXCEPT
                      !.reads[r].pc = "done", !.reads[r].kind = "returned",
                      !.reads[r].served = "response cache",
                      !.reads[r].value = shelf.page.value]
     ELSE shelf' = [shelf EXCEPT !.reads[r].pc = "cacheGet"]
  /\ UNCHANGED << shelfFrame, faultsLeft >>

\* getUserPortfolio: const cachedPortfolio = await
\* this.cacheManager.get(`portfolio:${userId}`), returned when it is there
ShelfCacheGet(r) ==
  /\ shelf.reads[r].pc = "cacheGet"
  /\ IF EntryLive(shelf.cache, portfolioTTL)
     THEN shelf' = [shelf EXCEPT
                      !.reads[r].pc = "respond",
                      !.reads[r].served = "portfolio cache",
                      !.reads[r].value = shelf.cache.value]
     ELSE shelf' = [shelf EXCEPT !.reads[r].pc = "find"]
  /\ UNCHANGED << shelfFrame, faultsLeft >>

\* const holdings = await this.portfolioRepository.find({ where: { userId }
\* }); NotFoundException when there is none
ShelfFind(r) ==
  /\ shelf.reads[r].pc = "find"
  /\ IF shelf.held = 0
     THEN shelf' = [shelf EXCEPT
                      !.reads[r].pc = "done", !.reads[r].kind = "thrown"]
     ELSE shelf' = [shelf EXCEPT
                      !.reads[r].pc = "cacheSet",
                      !.reads[r].served = "database",
                      !.reads[r].value = shelf.held]
  /\ UNCHANGED << shelfFrame, faultsLeft >>

\* await this.cacheManager.set(cacheKey, response, 15 * 60 * 1000)
ShelfCacheSet(r) ==
  /\ shelf.reads[r].pc = "cacheSet"
  /\ shelf' = [shelf EXCEPT
                 !.reads[r].pc = "respond",
                 !.cache = [at |-> clock, value |-> shelf.reads[r].value]]
  /\ UNCHANGED << shelfFrame, faultsLeft >>

\* the response is returned and the interceptor's tap stores it: void
\* this.cacheManager.set(cacheKey, response, ttl * 1000)
ShelfRespond(r) ==
  LET answered == [shelf EXCEPT !.reads[r].pc = "done",
                                !.reads[r].kind = "returned"]
  IN  /\ shelf.reads[r].pc = "respond"
      /\ \/ /\ NoFault
            /\ shelf' = [answered EXCEPT
                           !.page = [at |-> clock,
                                     value |-> shelf.reads[r].value]]
         \/ /\ Fault
            /\ shelf' = answered
      /\ UNCHANGED shelfFrame

\* updatePortfolio('u1', 'AAPL', quantity) is invoked
ShelfUpdate ==
  /\ shelf.made < MaxShelfUpdates
  /\ \E quantity \in Purchases :
       shelf' = [shelf EXCEPT
                   !.made = @ + 1,
                   !.updates[shelf.made + 1] =
                     [IdleShelfUpdate EXCEPT !.pc = "find",
                                             !.quantity = quantity]]
  /\ UNCHANGED << shelfFrame, faultsLeft >>

\* const existingHolding = await this.portfolioRepository.findOne({ where:
\* { userId, symbol } })
ShelfUpdateFind(u) ==
  /\ shelf.updates[u].pc = "find"
  /\ shelf' = [shelf EXCEPT
                 !.updates[u].pc = "write",
                 !.updates[u].existing =
                   IF shelf.held = 0 THEN NoHolding
                   ELSE [id |-> 1, quantity |-> shelf.held]]
  /\ UNCHANGED << shelfFrame, faultsLeft >>

\* await this.portfolioRepository.save(existingHolding) or
\* save(newHolding), which the unique key rejects when the pair has a row
ShelfUpdateWrite(u) ==
  LET update == shelf.updates[u]
      step == updatePortfolioStep(update.existing, update.quantity)
  IN  /\ update.pc = "write"
      /\ IF step.op = "create" /\ shelf.held # 0
         THEN shelf' = [shelf EXCEPT !.updates[u].pc = "thrown"]
         ELSE shelf' = [shelf EXCEPT
                          !.held = step.quantity,
                          !.updates[u].wrote = step.quantity,
                          !.updates[u].pc = "del"]
      /\ UNCHANGED << shelfFrame, faultsLeft >>

\* await this.cacheManager.del(`portfolio:${userId}`), and updatePortfolio
\* has completed
ShelfUpdateDel(u) ==
  /\ shelf.updates[u].pc = "del"
  /\ shelf' = [shelf EXCEPT
                 !.cache = NoSlot,
                 !.updates[u].pc = "done",
                 !.settled = IF shelf.updates[u].wrote > @
                             THEN shelf.updates[u].wrote ELSE @]
  /\ UNCHANGED << shelfFrame, faultsLeft >>

NextShelf ==
  \/ ShelfRead
  \/ \E r \in 1..MaxReads :
       \/ ShelfIntercept(r)
       \/ ShelfCacheGet(r)
       \/ ShelfFind(r)
       \/ ShelfCacheSet(r)
       \/ ShelfRespond(r)
  \/ ShelfUpdate
  \/ \E u \in 1..MaxShelfUpdates :
       \/ ShelfUpdateFind(u)
       \/ ShelfUpdateWrite(u)
       \/ ShelfUpdateDel(u)
  \/ Tick

SpecShelf == InitShelf /\ [][NextShelf]_vars

(***************************************************************************)
(* Properties                                                              *)
(***************************************************************************)
Terminal == {SUCCESS, FAILED}

HasRow(c) == calls[c].tradeId \in DOMAIN trades

RowOf(c) == trades[calls[c].tradeId]

Quiescent == \A c \in Calls : ~ Active(c)

\* positions in the log of slot c of the calls of an operation
Issued(c, op) == {i \in DOMAIN log[c] : log[c][i].op = op}

Completed(c, op) == {i \in Issued(c, op) : log[c][i].ok}

\* sum of the quantities of the SUCCESS trades 1..i of a (userId, symbol)
RECURSIVE SuccessQuantity(_, _)
SuccessQuantity(i, pr) ==
  IF i = 0 THEN 0
  ELSE SuccessQuantity(i - 1, pr) +
       (IF trades[i].status = SUCCESS /\ trades[i].userId = pr[1]
           /\ trades[i].symbol = pr[2]
        THEN trades[i].quantity ELSE 0)

\* C1: when a buyStock invocation whose PENDING record was saved has
\* returned or thrown, its trade is SUCCESS or FAILED, whichever step failed.
C1_NoTradeLeftPending ==
  \A c \in Calls :
    (calls[c].pc = "done" /\ HasRow(c)) => RowOf(c).status \in Terminal

\* C2 as claimed: after any sequence of calls the number of Trade rows
\* equals the number of calls.
C2_OneRowPerCall == Quiescent => Len(trades) = started

\* C2 as amended: every invocation whose initial save completed has exactly
\* one row and an invocation whose initial save threw has none, so the number
\* of rows is the number of invocations less those whose save threw or is
\* still to come; a step adds at most one row and never removes or
\* re-identifies one.
C2_OneRowPerSavedCall ==
  /\ [](/\ Len(trades) = started - saveThrew
                         - Cardinality({c \in Calls : calls[c].pc = "save"})
        /\ \A c \in Calls :
             Active(c) \/ calls[c].pc = "done" =>
               (HasRow(c) <=> Completed(c, "tradeRepository.save") # {}))
  /\ [][/\ Len(trades') \in {Len(trades), Len(trades) + 1}
        /\ \A i \in DOMAIN trades :
             /\ trades'[i].userId = trades[i].userId
             /\ trades'[i].symbol = trades[i].symbol
             /\ trades'[i].price = trades[i].price
             /\ trades'[i].quantity = trades[i].quantity]_vars

C2_Witness ==
  /\ Quiescent
  /\ started = 2
  /\ saveThrew = 1
  /\ Len(trades) = 1
  /\ trades[1].status = FAILED

C4_NoLostIncrement ==
  (/\ Quiescent
   /\ faultsLeft = 0
   /\ maxActive > 1
   /\ Len(trades) = started
   /\ \A i \in DOMAIN trades : trades[i].status = SUCCESS)
  => \A pr \in Pairs : holdings[pr] = SuccessQuantity(Len(trades), pr)

\* C5: after any sequence of non-overlapping buyStock calls, also when a
\* persistence step failed after the vendor accepted, the holding of every
\* (userId, symbol) is the sum of the quantities of its SUCCESS trades (none
\* for a pair without a SUCCESS trade).
C5_HoldingsMatchSuccessTrades ==
  (Quiescent /\ maxActive = 1)
  => \A pr \in Pairs : holdings[pr] = SuccessQuantity(Len(trades), pr)

\* C6: an invocation whose trade is SUCCESS has called updatePortfolio
\* exactly once, with the trade's userId, symbol and quantity; one whose
\* trade is not SUCCESS has not called it, and a step changes a holding only
\* on behalf of an invocation whose trade is SUCCESS.
C6_PortfolioOnlyOnSuccess ==
  /\ [](\A c \in Calls :
          /\ (calls[c].pc = "done" /\ HasRow(c) /\ RowOf(c).status = SUCCESS)
               => /\ Cardinality(Issued(c,
                       "portfolioService.updatePortfolio")) = 1
                  /\ \A i \in Issued(c, "portfolioService.updatePortfolio") :
                       log[c][i].arg = << RowOf(c).userId, RowOf(c).symbol,
                                          RowOf(c).quantity >>
          /\ (HasRow(c) /\ RowOf(c).status # SUCCESS)
               => Issued(c, "portfolioService.updatePortfolio") = {}
          /\ ~ HasRow(c) => Issued(c, "portfolioService.updatePortfolio") = {})
  /\ [][holdings' # holdings =>
          \E c \in Calls :
            /\ log'[c] # log[c]
            /\ HasRow(c)
            /\ RowOf(c).status = SUCCESS
            /\ trades' = trades]_vars

C6_Witness ==
  /\ \E c \in Calls :
       /\ calls[c].pc = "done"
       /\ calls[c].result.kind = "returned"
       /\ RowOf(c).status = SUCCESS
       /\ RowOf(c).quantity = 2
       /\ holdings[<< RowOf(c).userId, RowOf(c).symbol >>] >= 2
  /\ \E i \in DOMAIN trades : trades[i].status = FAILED

\* C7: in every state, for every Trade, reason is non-null if and only if
\* status is FAILED.
C7_ReasonIffFailed ==
  \A i \in DOMAIN trades :
    (~ trades[i].reason.null) <=> trades[i].status = FAILED

\* the order of the steps of buyStock
StepRank(op) ==
  CASE op = "tradeRepository.save" -> 1
    [] op = "stocksService.getStockBySymbol" -> 2
    [] op = "isPriceWithinTolerance" -> 3
    [] op = "httpClient.post" -> 4
    [] op = "tradeRepository.update" -> 5
    [] op = "portfolioService.updatePortfolio" -> 6
    [] OTHER -> 0

\* some call before position i of the log of slot c completed
CompletedBefore(c, i, op, arg) ==
  \E j \in 1..(i - 1) :
    log[c][j].op = op /\ log[c][j].ok /\ log[c][j].arg = arg

CompletedBeforeAny(c, i, op) ==
  \E j \in 1..(i - 1) : log[c][j].op = op /\ log[c][j].ok

\* C8: the PENDING record is saved before any external call (no quote lookup
\* and no vendor request is issued before the save has completed), and the
\* steps quote lookup, validation, vendor buy, terminal status write and
\* portfolio update are issued in that order, each after the one before it
\* has completed.
C8_SaveFirstThenInOrder ==
  \A c \in Calls :
    /\ \A i \in DOMAIN log[c] :
         log[c][i].op \in {"stocksService.getStockBySymbol",
                           "httpClient.post"}
           => CompletedBefore(c, i, "tradeRepository.save", PENDING)
    /\ \A i, j \in DOMAIN log[c] :
         (i < j /\ StepRank(log[c][i].op) > 0 /\ StepRank(log[c][j].op) > 0)
           => StepRank(log[c][i].op) <= StepRank(log[c][j].op)
    /\ \A i \in DOMAIN log[c] :
         /\ log[c][i].op = "isPriceWithinTolerance"
              => CompletedBeforeAny(c, i, "stocksService.getStockBySymbol")
         /\ log[c][i].op = "httpClient.post"
              => CompletedBeforeAny(c, i, "isPriceWithinTolerance")
         /\ (log[c][i].op = "tradeRepository.update"
             /\ log[c][i].arg = SUCCESS)
              => CompletedBeforeAny(c, i, "httpClient.post")
         /\ log[c][i].op = "portfolioService.updatePortfolio"
              => CompletedBefore(c, i, "tradeRepository.update", SUCCESS)
    /\ Cardinality(Issued(c, "tradeRepository.save")) <= 1
    /\ Cardinality(Issued(c, "stocksService.getStockBySymbol")) <= 1
    /\ Cardinality(Issued(c, "portfolioService.updatePortfolio")) <= 1

\* an invocation went through every step, with a retried vendor attempt
C8_Witness ==
  \E c \in Calls :
    /\ calls[c].pc = "done"
    /\ calls[c].result.kind = "returned"
    /\ Cardinality(Issued(c, "httpClient.post")) = 2
    /\ Completed(c, "portfolioService.updatePortfolio") # {}

\* C9: for two-decimal prices r and p, isPriceWithinTolerance(r, p) holds
\* if and only if 0.98 p <= r <= 1.02 p, both bounds included; for
\* p = 150.00 it accepts 147.00 and 153.00 and rejects 146.99 and 153.01.
C9_ToleranceBand ==
  tol.answer # "none" =>
    /\ (tol.answer = "accepted") <=>
         (/\ 98 * tol.current <= 100 * tol.requested
          /\ 100 * tol.requested <= 102 * tol.current)
    /\ (tol.current = 15000 /\ tol.requested \in {14700, 15300})
         => tol.answer = "accepted"
    /\ (tol.current = 15000 /\ tol.requested \in {14699, 15301})
         => tol.answer = "rejected"

\* the upper edge of a band whose product is not exact in binary64
C9_Witness ==
  tol = [requested |-> 357, current |-> 350, answer |-> "accepted"]

\* the invocation in slot c found its requested price out of tolerance
OutOfRange(c) ==
  \E i \in Issued(c, "isPriceWithinTolerance") : ~ log[c][i].ok

\* the status write that follows the failed validation completed
RangeWriteCompleted(c) ==
  \E i \in Issued(c, "isPriceWithinTolerance") :
    /\ ~ log[c][i].ok
    /\ i + 1 \in Completed(c, "tradeRepository.update")

\* the quote the invocation in slot c validated against
QuoteOf(c) ==
  log[c][CHOOSE i \in Issued(c, "isPriceWithinTolerance") : TRUE].arg

\* the error a price out of tolerance is answered with: VAL_002 with the
\* requested price, the quote and the band [0.98 * quote, 1.02 * quote] (prices
\* in cents, band edges in 1/10000)
RangeRejection(c) ==
  [type |-> "BadRequestException", errorCode |-> "VAL_002",
   message |-> "Price out of acceptable range",
   details |-> [providedPrice |-> calls[c].price,
                currentPrice |-> QuoteOf(c),
                allowedRange |-> << 98 * QuoteOf(c), 102 * QuoteOf(c) >>]]

QuoteNotFound(c) ==
  \E i \in Issued(c, "stocksService.getStockBySymbol") :
    ~ log[c][i].ok /\ log[c][i].arg = 404

\* C11: an invocation whose quote lookup finds no stock ends with its trade
\* FAILED with the stock-not-found reason, throws an error whose code is
\* VAL_003, and has issued no vendor buy request.
C11_StockNotFoundRejected ==
  \A c \in Calls :
    (calls[c].pc = "done" /\ QuoteNotFound(c)) =>
      /\ RowOf(c).status = FAILED
      /\ RowOf(c).reason =
           Str("Stock with symbol " \o calls[c].symbol \o " not found")
      /\ calls[c].result.kind = "thrown"
      /\ ErrorCodeOf(calls[c].result.value) = "VAL_003"
      /\ Issued(c, "httpClient.post") = {}

\* the vendor buy operation of the invocation in slot c reported failure
VendorFailed(c) ==
  \E i \in Issued(c, "tradesHttpService.buyStock") : ~ log[c][i].ok

\* the message of the response the vendor buy operation returned
VendorMessage(c) ==
  log[c][CHOOSE i \in Issued(c, "tradesHttpService.buyStock") : TRUE]
    .arg.message

\* the status write that follows the vendor's failure completed
VendorWriteCompleted(c) ==
  \E i \in Issued(c, "tradesHttpService.buyStock") :
    /\ ~ log[c][i].ok
    /\ i + 1 \in Completed(c, "tradeRepository.update")

\* the error a vendor failure is answered with: API_001 with the vendor's
\* message, the symbol and the requested price
VendorRejection(c) ==
  [type |-> "BadRequestException", errorCode |-> "API_001",
   message |-> VendorMessage(c),
   details |-> [symbol |-> calls[c].symbol, price |-> calls[c].price]]

Transient(outcome) ==
  \/ outcome.kind = "noResponse"
  \/ outcome.kind = "http" /\ outcome.status >= 500

\* the vendor call has made between one and three HTTP attempts when it ends
\* and never more than three, a successful attempt is its last, and it does
\* not end on a transient failure of its first or second attempt
VendorAttemptsBounded ==
  /\ Len(vendor.trace) <= 3
  /\ vendor.pc = "done" =>
       /\ Len(vendor.trace) >= 1
       /\ vendor.result.kind \in {"returned", "thrown"}
  /\ \A i \in DOMAIN vendor.trace :
       /\ vendor.trace[i].kind = "ok" =>
            i = Len(vendor.trace) /\ vendor.pc = "done"
       /\ (i < 3 /\ Transient(vendor.trace[i])) =>
            ~ (vendor.pc = "done" /\ Len(vendor.trace) = i)

\* C13: every call of getStocks and of buyStock makes at least one and at
\* most 3 HTTP attempts, none after a successful one, goes on after a
\* no-response failure and after a 5xx answer while attempts remain, and
\* always ends with a result or an error.
C13_RetryBoundedAndTerminates ==
  /\ [] VendorAttemptsBounded
  /\ (vendor.pc = "attempt") ~> (vendor.pc = "done")

C13_Witness ==
  /\ vendor.op = "buyStock"
  /\ vendor.pc = "done"
  /\ Len(vendor.trace) = 3
  /\ vendor.trace[1].kind = "noResponse"
  /\ vendor.trace[2].kind = "http" /\ vendor.trace[2].status = 503
  /\ vendor.trace[3].kind = "ok"
  /\ vendor.result.value.success

\* an attempt of the vendor call got a 4xx answer
ClientError(outcome) ==
  outcome.kind = "http" /\ outcome.status >= 400 /\ outcome.status < 500

\* C14: an attempt of getStocks or of buyStock that gets a 4xx answer is the
\* last one of its call: the call has ended with a failure, with no further
\* HTTP attempt and no backoff sleep after that attempt.
C14_ClientErrorNotRetried ==
  \A i \in DOMAIN vendor.trace :
    ClientError(vendor.trace[i]) =>
      /\ vendor.pc = "done"
      /\ Len(vendor.trace) = i
      /\ Len(vendor.sleeps) = i - 1
      /\ \/ vendor.result.kind = "thrown"
         \/ ~ vendor.result.value.success

\* the HTTP status the ended vendor call reports its failure with
FailureStatus ==
  IF vendor.result.kind = "thrown" THEN HttpStatusOf(vendor.result.value)
  ELSE vendor.result.value.status

\* C15: a vendor call whose three attempts all got no response ends with the
\* 'vendor unavailable' failure (503), and one whose three attempts all got a
\* 5xx answer ends with the 'vendor communication error' failure (502), for
\* getStocks and buyStock alike.
C15_ExhaustedFailureKinds ==
  (vendor.pc = "done" /\ Len(vendor.trace) = 3) =>
    /\ (\A i \in 1..3 : vendor.trace[i].kind = "noResponse")
         => FailureStatus = 503
    /\ (\A i \in 1..3 : /\ vendor.trace[i].kind = "http"
                         /\ vendor.trace[i].status >= 500)
         => FailureStatus = 502

\* the vendor answered the first two attempts of the invocation in slot c
\* with 503 and the third with success
TwoTransientThenOk(c) ==
  LET posts == Issued(c, "httpClient.post")
  IN  /\ Cardinality(posts) = 3
      /\ \E i \in posts :
           /\ posts = {i, i + 1, i + 2}
           /\ ~ log[c][i].ok /\ log[c][i].arg = 503
           /\ ~ log[c][i + 1].ok /\ log[c][i + 1].arg = 503
           /\ log[c][i + 2].ok

\* no persistence step of the invocation in slot c has failed
PersistenceCompleted(c) ==
  \A i \in DOMAIN log[c] :
    log[c][i].op \in {"tradeRepository.save", "tradeRepository.update",
                      "tradeRepository.findOne",
                      "portfolioService.updatePortfolio",
                      "portfolioRepository.save"}
      => log[c][i].ok

\* the invocation in slot c returned its trade as SUCCESS after exactly
\* three vendor attempts and one portfolio update
ReturnedSuccess(c) ==
  /\ calls[c].result.kind = "returned"
  /\ calls[c].result.value.status = SUCCESS
  /\ calls[c].result.value.id = calls[c].tradeId
  /\ RowOf(c).status = SUCCESS
  /\ Cardinality(Issued(c, "httpClient.post")) = 3
  /\ Cardinality(Completed(c, "portfolioService.updatePortfolio")) = 1
  /\ Cardinality(Completed(c, "portfolioRepository.save")) = 1

PortfolioWritten(c) ==
  calls[c].pc = "portfolioWrite" /\ calls'[c].pc # "portfolioWrite"

C17_CachedTokenReused ==
  \A r \in Requests :
    /\ reqs[r].page = 1 =>
         /\ reqs[r].reads = 0
         /\ \A i \in DOMAIN reqs[r].calls : reqs[r].calls[i].token = ""
         /\ Len(reqs[r].calls) <= 1
         /\ reqs[r].pc = "done" => Len(reqs[r].calls) = 1
    /\ (reqs[r].page > 1 /\ reqs[r].cached # "") =>
         /\ \A i \in DOMAIN reqs[r].calls :
              /\ reqs[r].calls[i].token = reqs[r].cached
              /\ reqs[r].calls[i].forPage = reqs[r].page
         /\ Len(reqs[r].calls) <= 1
         /\ reqs[r].pc = "done" => Len(reqs[r].calls) = 1

C17_Witness ==
  \E r \in Requests :
    /\ reqs[r].pc = "done"
    /\ reqs[r].page = 3
    /\ reqs[r].cached = VendorToken(2)
    /\ reqs[r].result.kind = "returned"
    /\ reqs[r].result.value.items = VendorItems(3)

\* the request in slot r asked for a page N > 1 that the catalog has and
\* found no token cached for it
Walked(r) ==
  /\ reqs[r].page > 1
  /\ reqs[r].page <= pager.catalog
  /\ reqs[r].reads = 1
  /\ reqs[r].cached = ""

ReturnedPage(r) ==
  reqs[r].pc = "done" /\ reqs[r].result.kind = "returned"

\* C18: a request for page N > 1 with no token cached for page N makes its
\* vendor calls for the pages 1, 2, ... in order, the first without a token
\* and each following one with the token the previous call returned; it has
\* stored the token of each call under the next page number before it makes
\* the next call; when it returns it has made exactly N calls and returns
\* the items of the N-th, which are the items of page N of the catalog and
\* those any request that found a cached token for page N returns.
C18_SequentialWalk ==
  \A r \in Requests :
    Walked(r) =>
      /\ Len(reqs[r].calls) <= reqs[r].page
      /\ \A i \in DOMAIN reqs[r].calls :
           /\ reqs[r].calls[i].forPage = i
           /\ reqs[r].calls[i].token =
                IF i = 1 THEN ""
                ELSE reqs[r].calls[i - 1].answer.nextToken
           /\ i > 1 => /\ reqs[r].calls[i - 1].ok
                       /\ Len(reqs[r].stored) >= i - 1
      /\ \A i \in DOMAIN reqs[r].stored :
           /\ i <= Len(reqs[r].calls)
           /\ reqs[r].stored[i] =
                [page |-> i + 1, token |-> reqs[r].calls[i].answer.nextToken]
      /\ ReturnedPage(r) =>
           /\ Len(reqs[r].calls) = reqs[r].page
           /\ reqs[r].result.value.items =
                reqs[r].calls[reqs[r].page].answer.items
           /\ reqs[r].result.value.items = VendorItems(reqs[r].page)
           /\ \A q \in Requests :
                (/\ ReturnedPage(q)
                 /\ reqs[q].page = reqs[r].page
                 /\ reqs[q].cached # "")
                  => reqs[q].result.value.items = reqs[r].result.value.items

\* a walk to page 3 returned next to a request that found the token of page 3
C18_Witness ==
  \E r, q \in Requests :
    /\ Walked(r) /\ ReturnedPage(r)
    /\ reqs[r].page = 3
    /\ Len(reqs[r].calls) = 3
    /\ ReturnedPage(q)
    /\ reqs[q].page = 3
    /\ reqs[q].cached # ""

\* the request in slot r asked for a page past the end of the catalog and
\* found no token cached for it
WalkedPastEnd(r) ==
  /\ reqs[r].page > pager.catalog
  /\ reqs[r].reads = 1
  /\ reqs[r].cached = ""

\* C19: a request for page N with no cached token, against a catalog of
\* fewer than N pages, returns no items, hasNextPage = false and totalItems
\* = (pages fetched) x limit, the pages fetched being those of the catalog;
\* neither it nor any other request stores a token for a page past the end.
C19_PastEndIsEmpty ==
  /\ \A k \in DOMAIN pager.tokens : k > pager.catalog => pager.tokens[k] = ""
  /\ \A r \in Requests :
       WalkedPastEnd(r) =>
         /\ \A i \in DOMAIN reqs[r].stored :
              reqs[r].stored[i].page <= pager.catalog
         /\ Len(reqs[r].calls) <= pager.catalog
         /\ reqs[r].pc = "done" => reqs[r].result.kind \in {"returned", "thrown"}
         /\ ReturnedPage(r) =>
              /\ Len(reqs[r].calls) = pager.catalog
              /\ reqs[r].result.value.items = << >>
              /\ reqs[r].result.value.hasNextPage = FALSE
              /\ reqs[r].result.value.totalItems =
                   Len(reqs[r].calls) * reqs[r].limit

\* page 3 asked of a catalog of one page, with limit 2
C19_Witness ==
  \E r \in Requests :
    /\ WalkedPastEnd(r) /\ ReturnedPage(r)
    /\ pager.catalog = 1
    /\ reqs[r].page = 3
    /\ reqs[r].limit = 2
    /\ reqs[r].result.value.totalItems = 2

\* the token that continues to page k of the catalog: none for page 1, else
\* the continuation token the vendor returns with page k - 1
RECURSIVE ContinuationTo(_)
ContinuationTo(k) ==
  IF k <= 1 THEN ""
  ELSE vendorGetStocks(pager.catalog, ContinuationTo(k - 1)).nextToken

\* C20: whatever requests overlap, the token cached under page K >= 2 is the
\* continuation token the vendor returned with page K - 1, and every vendor
\* call made to obtain page K carries no token for K = 1 and that very token
\* otherwise, so that the page it is answered with is page K.
C20_TokensContinueTheirPage ==
  /\ \A k \in DOMAIN pager.tokens :
       (k >= 2 /\ pager.tokens[k] # "") =>
         pager.tokens[k] = ContinuationTo(k)
  /\ \A r \in Requests :
       \A i \in DOMAIN reqs[r].calls :
         LET call == reqs[r].calls[i]
         IN  /\ call.token = ContinuationTo(call.forPage)
             /\ call.forPage = 1 => call.token = ""
             /\ PageOfToken(call.token) = call.forPage
             /\ call.ok => call.answer.items = VendorItems(call.forPage)

\* two overlapping requests, one walking to page 3 while the other has used
\* the token cached for page 2
C20_Witness ==
  \E r, q \in Requests :
    /\ r # q
    /\ Busy(r) /\ Busy(q)
    /\ reqs[r].page = 3 /\ reqs[r].cached = "" /\ Len(reqs[r].calls) = 3
    /\ reqs[q].page = 2 /\ reqs[q].cached # "" /\ Len(reqs[q].calls) = 1
    /\ pager.tokens[3] # ""

\* what the lookup on slot q did so far
SeenBy(q) == quotes.slots[q].seen

LookupReturned(q) ==
  quotes.slots[q].pc = "done" /\ quotes.slots[q].result.kind = "returned"

\* the answer of findOne is a record fetched strictly less than 5 minutes ago
FreshRecord(did) ==
  did.ok /\ did.arg # NoTime /\ did.arg * TickSeconds < 5 * 60

\* the operations of the vendor fallback
FallbackOps == {"cache.get.all", "stocksHttpService.getStocks"}

WalksBy(q) ==
  {i \in DOMAIN SeenBy(q) :
     SeenBy(q)[i] = Did("stocksHttpService.getStocks", TRUE, 1)}

\* no await of the lookup on slot q was rejected
Unfailed(q) == quotes.slots[q].result.value.type # "Error"

\* the two lookups were made less than one TTL apart
SameWindow(q, p) ==
  /\ (quotes.slots[q].at - quotes.slots[p].at) * TickSeconds < cacheTTL
  /\ (quotes.slots[p].at - quotes.slots[q].at) * TickSeconds < cacheTTL

\* C22: two getStockBySymbol lookups of the same symbol made within one TTL
\* window, one after the other or overlapping, none of whose awaits is
\* rejected, walk the vendor's catalog at most once in total
C22_OneWalkPerWindow ==
  \A q, p \in DOMAIN quotes.slots :
    (/\ q < p
     /\ quotes.slots[q].pc # "idle"
     /\ quotes.slots[p].pc # "idle"
     /\ quotes.slots[q].symbol = quotes.slots[p].symbol
     /\ SameWindow(q, p)
     /\ Unfailed(q)
     /\ Unfailed(p))
      => Cardinality(WalksBy(q)) + Cardinality(WalksBy(p)) <= 1

\* the pages the lookup on slot q asked the vendor for, in order
PagesAsked(q) ==
  LET s == SeenBy(q)
      RECURSIVE From(_)
      From(i) ==
        IF i > Len(s) THEN << >>
        ELSE IF s[i].op = "stocksHttpService.getStocks"
             THEN << s[i].arg >> \o From(i + 1)
             ELSE From(i + 1)
  IN  From(1)

\* the lookup on slot q went through the vendor walk and the store update
FallbackCompleted(q) ==
  /\ PagesAsked(q) # << >>
  /\ \E i \in DOMAIN SeenBy(q) : SeenBy(q)[i].op = "stockRepository.save"
                                   /\ SeenBy(q)[i].ok

CatalogSymbols == {VendorItems(k)[1].symbol : k \in 1..pager.catalog}

\* the walk began without a token and followed the tokens to the last page
WalkedWholeCatalog(q) == PagesAsked(q) = [k \in 1..pager.catalog |-> k]

StoredEveryItem ==
  \A s \in CatalogSymbols :
    stocks.store[s] = VendorPrice(s) /\ stocks.fetchedAt[s] # NoTime

CachedEveryItem ==
  \A s \in CatalogSymbols :
    stocks.cache[s] = VendorPrice(s) /\ stocks.cachedAt[s] # NoTime

\* C23: the vendor fallback of getStockBySymbol fetches the pages from the
\* first, without a token, along the continuation tokens to the page that
\* returns none, and when it has completed every item of every page is in
\* the persisted store with lastFetchedAt set and in its cache entry
\* stock:{symbol}, not only the requested symbol
C23_FallbackStoresAndCachesAll ==
  \A q \in DOMAIN quotes.slots :
    (FallbackCompleted(q) /\ LookupReturned(q))
      => WalkedWholeCatalog(q) /\ StoredEveryItem /\ CachedEveryItem

\* the prices of the buyStock requests whose lookups were made
RequestedPrices ==
  {quotes.slots[q].price : q \in {p \in DOMAIN quotes.slots :
                                     quotes.slots[p].pc # "idle"}}

\* the price held for the symbol is the one the vendor returns for it, and
\* not the price of a request
VendorDerived(symbol, price) ==
  price # 0 => price = VendorPrice(symbol) /\ price \notin RequestedPrices

\* C24: the price held for a symbol in the Stock store, in its cache entry
\* stock:{symbol} and in the cached list stocks:all is a price the vendor
\* returned for that symbol; the lookups of buyStock requests, which carry
\* a price of the client, never write another price
C24_PricesAreVendorDerived ==
  /\ \A s \in StockSymbols :
       /\ VendorDerived(s, stocks.store[s])
       /\ VendorDerived(s, stocks.cache[s])
  /\ \A i \in DOMAIN stocks.all.items :
       VendorDerived(stocks.all.items[i].symbol, stocks.all.items[i].price)
  /\ \A q \in DOMAIN quotes.slots :
       LookupReturned(q)
         => /\ quotes.slots[q].dto # 0
            /\ VendorDerived(quotes.slots[q].symbol, quotes.slots[q].dto)

\* the lookup of a buyStock request went through the vendor fallback, which
\* wrote the store, the list and the entry of the second symbol
C24_Witness ==
  \E q \in DOMAIN quotes.slots :
    /\ LookupReturned(q)
    /\ FallbackCompleted(q)
    /\ quotes.slots[q].price \in ClientPrices
    /\ quotes.slots[q].symbol = "STK2"
    /\ stocks.cache["STK2"] # 0
    /\ stocks.store["STK2"] # 0
    /\ stocks.all.items # << >>

FolioPairs == FolioUsers \X FolioSymbols

Absent == [present |-> FALSE, quantity |-> 0]

Held(quantity) == [present |-> TRUE, quantity |-> quantity]

RowsOfPair(pr) == {r \in folio.rows : r.userId = pr[1] /\ r.symbol = pr[2]}

\* the holding of each pair in the table
HoldingOf(pr) ==
  IF RowsOfPair(pr) = {} THEN Absent
  ELSE Held((CHOOSE r \in RowsOfPair(pr) : TRUE).quantity)

\* the reference operator: apply(userId, symbol, delta) to a table
ReferenceApply(table, pr, delta) ==
  IF table[pr].present
  THEN IF table[pr].quantity + delta <= 0
       THEN [table EXCEPT ![pr] = Absent]
       ELSE [table EXCEPT ![pr] = Held(table[pr].quantity + delta)]
  ELSE IF delta > 0 THEN [table EXCEPT ![pr] = Held(delta)]
       ELSE table

RECURSIVE ReferenceAfter(_)
ReferenceAfter(updates) ==
  IF updates = << >> THEN [pr \in FolioPairs |-> Absent]
  ELSE LET last == updates[Len(updates)]
       IN  ReferenceApply(ReferenceAfter(SubSeq(updates, 1, Len(updates) - 1)),
                          << last.userId, last.symbol >>, last.quantity)

\* C25: updatePortfolio(userId, symbol, delta) behaves as the reference
\* operator: an existing holding of quantity q is deleted when
\* q + delta <= 0 and stored as q + delta otherwise, a missing holding is
\* created with delta when delta > 0 and left missing otherwise, and the
\* holdings of the other pairs are unchanged; so after invocations made one
\* after the other the table is the reference applied to those that
\* returned, in order
C25_UpdateIsReferenceOperator ==
  /\ \A pr \in FolioPairs :
       /\ Cardinality(RowsOfPair(pr)) <= 1
       /\ HoldingOf(pr) = ReferenceAfter(folio.returned)[pr]
  /\ \A u \in DOMAIN folio.slots :
       (folio.slots[u].pc = "done"
          /\ folio.slots[u].result.value # Err("connection lost"))
         => folio.slots[u].result.kind = "returned"

\* a holding was created, then reduced, then deleted by a delta that takes
\* it below zero
C25_Witness ==
  /\ Len(folio.returned) = 3
  /\ \A i \in 1..3 : folio.returned[i].symbol = "AAPL"
  /\ folio.returned[1].quantity = 2
  /\ folio.returned[2].quantity = -1
  /\ folio.returned[3].quantity = -2
  /\ folio.rows = {}

\* C26: every persisted holding has quantity > 0, after any sequence and
\* interleaving of updatePortfolio invocations with positive or negative
\* deltas: a holding whose quantity would become zero or negative is
\* removed instead
C26_HoldingsArePositive == \A r \in folio.rows : r.quantity > 0

\* the invocation on slot u found a holding that its delta takes to zero
\* or below, and returned
RemovedBy(u) ==
  /\ folio.slots[u].pc = "done"
  /\ folio.slots[u].result.kind = "returned"
  /\ folio.slots[u].existing # NoHolding
  /\ folio.slots[u].existing.quantity + folio.slots[u].quantity <= 0

\* two overlapping invocations found the same holding; one took it to zero
\* and removed it, the other took it below zero
C26_Witness ==
  \E u, v \in DOMAIN folio.slots :
    /\ u # v
    /\ RemovedBy(u)
    /\ RemovedBy(v)
    /\ folio.slots[u].existing = folio.slots[v].existing
    /\ folio.slots[u].existing.quantity + folio.slots[u].quantity = 0
    /\ folio.slots[v].existing.quantity + folio.slots[v].quantity < 0

\* the invocations on slots u and v were two first purchases of one symbol
\* by one user that overlapped: both found no holding, and no await of
\* theirs was rejected by a lost connection
OverlappingFirstPurchases(u, v) ==
  /\ folio.slots[u].pc = "done"
  /\ folio.slots[v].pc = "done"
  /\ folio.slots[u].userId = folio.slots[v].userId
  /\ folio.slots[u].symbol = folio.slots[v].symbol
  /\ folio.slots[u].quantity > 0
  /\ folio.slots[v].quantity > 0
  /\ folio.slots[u].existing = NoHolding
  /\ folio.slots[v].existing = NoHolding
  /\ folio.slots[u].result.value # Err("connection lost")
  /\ folio.slots[v].result.value # Err("connection lost")

\* C27: there is at most one holding per (userId, symbol), and when two
\* updatePortfolio invocations for a pair without a holding run
\* concurrently both complete and the one holding carries both quantities
C27_OneHoldingCarriesBoth ==
  /\ \A pr \in FolioPairs : Cardinality(RowsOfPair(pr)) <= 1
  /\ (folio.made = 2 /\ OverlappingFirstPurchases(1, 2))
       => /\ folio.slots[1].result.kind = "returned"
          /\ folio.slots[2].result.kind = "returned"
          /\ HoldingOf(<< folio.slots[1].userId, folio.slots[1].symbol >>)
               = Held(folio.slots[1].quantity + folio.slots[2].quantity)

\* the deltas of the invocations that returned for the pair, in order
RECURSIVE DeltasOf(_, _)
DeltasOf(updates, pr) ==
  IF updates = << >> THEN << >>
  ELSE LET rest == DeltasOf(Tail(updates), pr)
           first == updates[1]
       IN  IF << first.userId, first.symbol >> = pr
           THEN << first.quantity >> \o rest
           ELSE rest

RECURSIVE SumOf(_)
SumOf(deltas) == IF deltas = << >> THEN 0 ELSE deltas[1] + SumOf(Tail(deltas))

\* the running sum of the deltas stays positive until it reaches 0 with the
\* last one
PositiveUntilZero(deltas) ==
  /\ deltas # << >>
  /\ SumOf(deltas) = 0
  /\ \A n \in 1..(Len(deltas) - 1) : SumOf(SubSeq(deltas, 1, n)) > 0

\* C28: over a pair that had no holding, updatePortfolio(+q) followed by
\* updatePortfolio(-q) leaves no holding, and so does any sequence of
\* deltas whose running sum stays positive until it reaches 0
C28_NetZeroRemovesHolding ==
  \A pr \in FolioPairs :
    PositiveUntilZero(DeltasOf(folio.returned, pr)) => RowsOfPair(pr) = {}

\* +1, +1 and -2 were applied to one pair, which has no holding afterwards
C28_Witness ==
  /\ DeltasOf(folio.returned, << "u1", "MSFT" >>) = << 1, 1, -2 >>
  /\ RowsOfPair(<< "u1", "MSFT" >>) = {}

\* the holdings of the walk's user, in ascending symbol order
HoldingsInOrder ==
  LET mine == {r \in walk.rows : r.userId = walk.userId}
      order == Ascending({r.symbol : r \in mine})
  IN  [i \in DOMAIN order |-> CHOOSE r \in mine : r.symbol = order[i]]

\* the items of the first k pages the walk returned, one after the other
RECURSIVE ItemsThrough(_)
ItemsThrough(k) ==
  IF k = 0 THEN << >> ELSE ItemsThrough(k - 1) \o walk.pages[k].items

WalkThrew(type) ==
  walk.pc = "done" /\ walk.result.kind = "thrown"
    /\ walk.result.value.type = type

\* C29: a walk through getUserPortfolio, first without a token and then
\* with each returned nextToken, over n >= 1 holdings that do not change,
\* returns every holding exactly once in ascending symbol order in pages of
\* at most 10 items; a page has a nextToken exactly when holdings remain
\* after it, and the token then encodes its offset + 10; no page raises
\* NotFound; a user with no holdings gets NotFound
C29_WalkReturnsEveryHoldingOnce ==
  LET all == HoldingsInOrder
      got == ItemsThrough(Len(walk.pages))
  IN  /\ Len(got) <= Len(all)
      /\ got = SubSeq(all, 1, Len(got))
      /\ \A k \in DOMAIN walk.pages :
           LET page == walk.pages[k]
               before == Len(ItemsThrough(k - 1))
           IN  /\ Len(page.items) \in 1..10
               /\ page.nextToken # << >>
                    <=> before + Len(page.items) < Len(all)
               /\ page.nextToken # << >>
                    => ParseCursor(FromBase64(page.nextToken))
                         = [ok |-> TRUE, offset |-> before + 10]
      /\ (walk.pc = "done" /\ walk.result.kind = "returned")
           => got = all /\ all # << >>
      /\ ~ WalkThrew("BadRequestException")
      /\ WalkThrew("NotFoundException") => all = << >>
      /\ (all = << >> /\ walk.pc = "done") => walk.result.kind = "thrown"

\* the walk over 20 holdings ended after two full pages, and the second has
\* no nextToken
C29_Witness ==
  /\ Len(HoldingsInOrder) = 20
  /\ walk.pc = "done"
  /\ walk.result.kind = "returned"
  /\ Len(walk.pages) = 2
  /\ Len(walk.pages[2].items) = 10
  /\ walk.pages[1].nextToken # << >>

\* no trade of the table was made on the reported day
NoTradeOnReportedDay ==
  /\ report.pc # "idle"
  /\ \A i \in DOMAIN report.table :
       DayOf(report.table[i].timestamp) # DayOf(report.reportDate)

\* C30 as stated: generateDailyReport for a day on which no trade has its
\* timestamp between the start and the end of that day returns true,
\* renders no template and sends no email
C30_EmptyDaySucceeds ==
  NoTradeOnReportedDay
    => /\ report.rendered = 0
       /\ report.sent = 0
       /\ report.pc = "done" => report.result = "true"

\* C30: for such a day generateDailyReport renders no template and sends no
\* email, and it returns true when the trade query completes; when the
\* query rejects, the catch clause makes it return false
C30_EmptyDaySucceedsWhenQueried ==
  NoTradeOnReportedDay
    => /\ report.rendered = 0
       /\ report.sent = 0
       /\ report.pc = "done"
            => (report.result = "true" <=> faultsLeft = MaxReportFaults)

\* the report of day 1 returned true with a trade in the last millisecond
\* of day 0 and one in the first of day 2 in the table
C30_Witness ==
  /\ report.pc = "done"
  /\ report.result = "true"
  /\ DayOf(report.reportDate) = 1
  /\ Len(report.table) = 2
  /\ report.table[1].timestamp = DayMs - 1
  /\ report.table[2].timestamp = 2 * DayMs
  /\ report.rendered = 0
  /\ report.sent = 0

\* the positions of the table whose trade was made on the reported day
TradesOfDay ==
  {i \in DOMAIN report.table :
     DayOf(report.table[i].timestamp) = DayOf(report.reportDate)}

\* the trades of the reported day with a status
OfStatus(status) == {i \in TradesOfDay : report.table[i].status = status}

\* the reason a failed trade is listed under: its reason, and the trades
\* that carry none are listed together
ListedReason(i) ==
  IF report.table[i].reason = "" THEN "Unknown reason"
  ELSE report.table[i].reason

\* the FAILED trades of the reported day listed under a reason
FailedFor(reason) == {i \in OfStatus(FAILED) : ListedReason(i) = reason}

\* the report context has been built
ContextBuilt == report.pc \in {"render", "send"} \/ report.rendered > 0

\* C31: for a day with at least one trade, the report context has
\* totalTrades = the number of trades of the day, successCount = the number
\* with status SUCCESS, failedCount = the number with status FAILED, and
\* failureReasons holds exactly one entry per distinct reason of the FAILED
\* trades, its count the number of FAILED trades with that reason, so that
\* the counts sum to failedCount
C31_ContextCountsTheDay ==
  ContextBuilt
    => LET c == report.context
           entries == c.failureReasons
       IN  /\ TradesOfDay # {}
           /\ c.totalTrades = Cardinality(TradesOfDay)
           /\ c.successCount = Cardinality(OfStatus(SUCCESS))
           /\ c.failedCount = Cardinality(OfStatus(FAILED))
           /\ \A i \in OfStatus(FAILED) :
                \E k \in DOMAIN entries : entries[k].reason = ListedReason(i)
           /\ \A k \in DOMAIN entries :
                /\ entries[k].count = Cardinality(FailedFor(entries[k].reason))
                /\ entries[k].count > 0
                /\ \A j \in DOMAIN entries :
                     entries[j].reason = entries[k].reason => j = k
           /\ SumOf([k \in DOMAIN entries |-> entries[k].count])
                = c.failedCount

\* a day of 2 SUCCESS trades and 3 FAILED trades with reasons A, A and B
\* gave totalTrades 5, successCount 2, failedCount 3 and {A: 2, B: 1}
C31_Witness ==
  /\ ContextBuilt
  /\ Cardinality(OfStatus(SUCCESS)) = 2
  /\ Cardinality(FailedFor("A")) = 2
  /\ Cardinality(FailedFor("B")) = 1
  /\ Cardinality(TradesOfDay) = 5
  /\ report.context.totalTrades = 5
  /\ report.context.successCount = 2
  /\ report.context.failedCount = 3
  /\ {report.context.failureReasons[k] :
        k \in DOMAIN report.context.failureReasons}
       = {[reason |-> "A", count |-> 2], [reason |-> "B", count |-> 1]}

\* the reported day of the job has a trade
JobDayHasTrades ==
  \E i \in DOMAIN report.table :
    DayOf(report.table[i].timestamp) = DayOf(queue.job.date)

\* the attempt ran into one of the failures of the report: no recipients
\* after the rendering, an email that was not sent, or a query or a
\* rendering that raised
ReportFailed(attempt) ==
  \/ attempt.raised
  \/ attempt.rendered = 1 /\ report.recipients = 0
  \/ attempt.sent = 1 /\ attempt.result = "false"

\* the email of the attempt was sent
EmailSent(attempt) == attempt.sent = 1 /\ attempt.result = "true"

\* C32: generateDailyReport answers true or false, never throws; an attempt
\* of a job for a day with trades throws to the queue whenever no recipients
\* are configured, the email is not sent, or the query or the rendering
\* raises; and an attempt returns to the queue only if the email was sent or
\* the day had no trades
C32_FailedReportFailsTheJob ==
  /\ report.pc = "done" => report.result \in {"true", "false"}
  /\ \A k \in DOMAIN queue.job.attempts :
       LET attempt == queue.job.attempts[k]
       IN  /\ JobDayHasTrades /\ ReportFailed(attempt)
                => attempt.threw /\ attempt.result = "false"
           /\ JobDayHasTrades /\ ~ ReportFailed(attempt)
                => EmailSent(attempt)
           /\ ~ attempt.threw => EmailSent(attempt) \/ ~ JobDayHasTrades
  /\ queue.job.state = "removed"
       => LET last == queue.job.attempts[Len(queue.job.attempts)]
          IN  EmailSent(last) \/ ~ JobDayHasTrades

\* a job for a day with a trade failed twice and waits for its third
\* attempt: the rendering raised in the first attempt and the email was not
\* sent in the second
C32_Witness ==
  /\ queue.job.state = "delayed"
  /\ JobDayHasTrades
  /\ report.recipients = 1
  /\ Len(queue.job.attempts) = 2
  /\ queue.job.attempts[1].raised
  /\ queue.job.attempts[1].rendered = 1
  /\ queue.job.attempts[1].threw
  /\ queue.job.attempts[2].sent = 1
  /\ queue.job.attempts[2].threw

\* the delays the claim lists: 1 minute, 5 minutes and 15 minutes
ClaimedDelays == << 60000, 300000, 900000 >>

\* C33 as stated: a job that keeps failing is retried up to 3 times, after
\* 1 minute, 5 minutes and 15 minutes, and a job whose retries are exhausted
\* stays among the failed jobs, whether the cron schedule or the manual
\* trigger added it
C33_ThreeRetriesAfter1And5And15Minutes ==
  /\ Len(queue.job.delays) <= Len(ClaimedDelays)
  /\ \A k \in DOMAIN queue.job.delays :
       queue.job.delays[k] = ClaimedDelays[k]
  /\ queue.job.state = "failed"
       => /\ queue.job.delays = ClaimedDelays
          /\ queue.job.attemptsMade = 1 + Len(ClaimedDelays)

\* C34 as stated: generateReport answers success = true only when a job was
\* added to the reports queue, and answers success = false with the error
\* in its message when adding the job failed
C34_SuccessMeansJobAdded ==
  /\ queue.answer.success
       => \E k \in DOMAIN queue.adds :
            queue.adds[k].origin = "manual" /\ queue.adds[k].ok
  /\ (\E k \in DOMAIN queue.adds :
        queue.adds[k].origin = "manual" /\ ~ queue.adds[k].ok)
       => /\ ~ queue.answer.success
          /\ queue.answer.message # "none"

\* the GET /stocks requests that were answered or failed
FeedDone == {r \in 1..MaxFeedRequests : feed.slots[r].pc = "done"}

\* the vendor received the token of the client in every call made for it
TokenPassedUnchanged(r) ==
  \A i \in DOMAIN feed.slots[r].sent :
    feed.slots[r].sent[i] = feed.slots[r].token

\* the continuation token of the vendor is the nextToken of the response
NextTokenReturnedUnchanged(r) ==
  feed.slots[r].served = "vendor"
    => feed.slots[r].response.nextToken = feed.slots[r].page.nextToken

\* the page of request r0 was fetched with the token of request r less than
\* the TTL before r arrived
StillFresh(r0, r) ==
  /\ r0 < r
  /\ feed.slots[r0].served = "vendor"
  /\ feed.slots[r0].token = feed.slots[r].token
  /\ (feed.slots[r].startedAt - feed.slots[r0].fetchedAt) * TickSeconds
       < defaultTTL

\* request r repeats a fetch that is still fresh: no vendor call is made for
\* it and it returns the page of that fetch
RepeatServedWithoutVendor(r) ==
  \A r0 \in FeedDone :
    StillFresh(r0, r)
      => /\ feed.slots[r].sent = << >>
         /\ feed.slots[r].kind = "returned"
              => feed.slots[r].response = feed.slots[r0].response

\* C35 as stated: getStocks(token) passes the token of the client unchanged
\* to the vendor, returns the continuation token of the vendor unchanged as
\* nextToken, and a repeated getStocks with the same token while the earlier
\* fetch is still fresh is served without a new vendor call and returns the
\* same page
C35_TokenPassesThroughAndRepeatsAreCached ==
  \A r \in FeedDone :
    /\ TokenPassedUnchanged(r)
    /\ NextTokenReturnedUnchanged(r)
    /\ RepeatServedWithoutVendor(r)

\* C36 as stated: every quote that getStockBySymbol returns, from the
\* stock:{symbol} entry, the store or stocks:all, carries a price that the
\* vendor gave less than one TTL before the call returned
C36_ReturnedQuotesAreYoungerThanTTL ==
  \A q \in DOMAIN quotes.slots :
    LookupReturned(q)
      => quotes.slots[q].age * TickSeconds * 1000 < cacheTTL * 1000

\* C37 as stated: once an updatePortfolio call for the user has completed,
\* every portfolio read that starts afterwards returns the updated holdings;
\* neither the portfolio:{userId} entry nor the response cache serves
\* holdings from before the update (the purchases only raise the quantity,
\* so the holdings of a read are from before the update when they are
\* below the quantity the completed updates had brought the holding to)
C37_ReadsSeeCompletedUpdates ==
  \A r \in DOMAIN shelf.reads :
    shelf.reads[r].kind = "returned"
      => shelf.reads[r].value >= shelf.reads[r].floor

(***************************************************************************)
(* generateDailyReport while TradesService.buyStock executions write the   *)
(* trades table                                                            *)
(***************************************************************************)
\* the trades table holds up to this many rows
MaxLedgerRows == 3

\* the tables whose trades are all settled
SettledTables ==
  {table \in TradeTables : \A i \in DOMAIN table : table[i].status # PENDING}

InitLedger ==
  /\ InitTables
  /\ tol = NoCheck
  /\ vendor = IdleVendor
  /\ faultsLeft = MaxReportFaults
  /\ maxActive = 1
  /\ pager = [catalog |-> 1, tokens |-> NoTokens, asked |-> 0]
  /\ reqs = [r \in Requests |-> IdleReq]
  /\ stocks = NoStocks
  /\ clock = 0
  /\ quotes = [asked |-> 0, slots |-> [q \in 1..MaxLookups |-> IdleLookup]]
  /\ folio = IdleFolio
  /\ queue = IdleQueue
  /\ feed = IdleFeed
  /\ shelf = IdleShelf
  /\ walk = IdleWalk
  /\ \E table \in SettledTables :
       report = [IdleReport EXCEPT !.table = table, !.recipients = 1]

\* buyStock: await this.tradeRepository.save(trade) of a trade with status
\* PENDING and timestamp new Date()
LedgerSave ==
  /\ Len(report.table) < MaxLedgerRows
  /\ report' = [report EXCEPT
                  !.table = SaveTrade(@, [timestamp |-> NowMs,
                                          status |-> PENDING,
                                          reason |-> ""])]
  /\ UNCHANGED << reportFrame, faultsLeft >>

\* buyStock: await this.updateTradeStatus(trade.id, ...) of its own trade,
\* to FAILED with a reason or to SUCCESS
LedgerSettle ==
  /\ \E i \in DOMAIN report.table :
       /\ report.table[i].status = PENDING
       /\ \E kind \in {k \in TradeKinds : k.status # PENDING} :
            report' = [report EXCEPT
                         !.table[i].status = kind.status,
                         !.table[i].reason = kind.reason]
  /\ UNCHANGED << reportFrame, faultsLeft >>

NextLedger == NextReport \/ LedgerSave \/ LedgerSettle

SpecLedger == InitLedger /\ [][NextLedger]_vars

\* C38: in every report that generateDailyReport renders, totalTrades =
\* successCount + failedCount, whatever buyStock executions of the reported
\* day are under way when the report reads the trades
C38_TotalIsSuccessPlusFailed ==
  ContextBuilt
    => report.context.totalTrades
         = report.context.successCount + report.context.failedCount

\* the wait the backoff rule gives before attempt k + 1, without the jitter
ClaimedBase(k) ==
  IF 1000 * Pow2(k - 1) < 10000 THEN 1000 * Pow2(k - 1) ELSE 10000

\* C39: in the retry loops of getStocks and buyStock the wait before attempt
\* k + 1 (k = 1, 2) is min(1000 * 2^(k-1), 10000) ms plus a jitter of at
\* least 0 and less than 1000 ms, a base of 1 s and then 2 s; a wait follows
\* only an attempt that asked for a retry, none follows a successful attempt
\* or the third attempt, and a call sleeps at most twice
C39_BackoffDoublesWithJitter ==
  /\ Len(vendor.sleeps) <= 2
  /\ Len(vendor.sleeps)
       = IF vendor.pc = "attempt" THEN Len(vendor.trace)
         ELSE IF vendor.pc = "idle" THEN 0
         ELSE Len(vendor.trace) - 1
  /\ \A k \in DOMAIN vendor.sleeps :
       /\ vendor.sleeps[k] >= ClaimedBase(k)
       /\ vendor.sleeps[k] < ClaimedBase(k) + 1000
       /\ ClaimedBase(k) = k * 1000
       /\ vendor.trace[k].kind # "ok"
       /\ k < MaxRetriesOf(vendor.op)

\* a buyStock call slept 1000 ms and then 2999 ms and ended with its third
\* attempt
C39_Witness ==
  /\ vendor.op = "buyStock"
  /\ vendor.pc = "done"
  /\ Len(vendor.trace) = 3
  /\ vendor.sleeps = << 1000, 2999 >>

\* the vendor answered an HTTP attempt of the invocation in slot c with 200
\* and a body
VendorAccepted(c) == Completed(c, "httpClient.post") # {}

\* the trade of the invocation in slot c is SUCCESS
TradeSucceeded(c) == calls[c].tradeId # 0 /\ RowOf(c).status = SUCCESS

\* the steps that set a trade to SUCCESS, or save it as SUCCESS, are taken by
\* the invocation that owns the trade, after the vendor accepted its order
SuccessWrittenAfterAccept ==
  \A i \in DOMAIN trades' :
    (/\ trades'[i].status = SUCCESS
     /\ (i \in DOMAIN trades => trades[i].status # SUCCESS))
      => \E c \in Calls : calls[c].tradeId = i /\ VendorAccepted(c)

\* tradesHttpService.buyStock returned from inside its loop: it made at most
\* maxRetries attempts, did not throw, and answered success = true only
\* for an attempt the vendor accepted
ReturnedInsideLoop(c) ==
  /\ calls[c].pc = "vendor" => calls[c].attempt <= maxRetries
  /\ Cardinality(Issued(c, "httpClient.post")) <= maxRetries
  /\ \A i \in Issued(c, "tradesHttpService.buyStock") :
       /\ i > 1
       /\ log[c][i - 1].op = "httpClient.post"
       /\ log[c][i].arg.success = log[c][i - 1].ok
       /\ log[c][i].ok = log[c][i].arg.success

\* C40: a trade with status SUCCESS had a vendor buy attempt answered with
\* 200 and a body: TradesHttpService.buyStock returns from inside its retry
\* loop with success = true only for such an answer, and buyStock writes
\* SUCCESS only after it
C40_SuccessMeansVendorAccepted ==
  /\ [] (\A c \in Calls : /\ ReturnedInsideLoop(c)
                          /\ TradeSucceeded(c) => VendorAccepted(c))
  /\ [][SuccessWrittenAfterAccept]_vars

\* a trade is SUCCESS after the vendor left two attempts of its order
\* without an answer it could use and accepted the third
C40_Witness ==
  \E c \in Calls :
    /\ TradeSucceeded(c)
    /\ TwoTransientThenOk(c)
    /\ calls[c].pc = "done"

====
